---------------------------- MODULE Spec2Model ----------------------------
(***************************************************************************)
(* QuickBudget: the budget engine (src/src/core/budget_calculator.py),     *)
(* the SettingsManager and the DataManager beside it (settings_manager.py,  *)
(* data_manager.py), the MainWindow that drives them (main_window.py) and   *)
(* the single-file script master_budget_gui.py.  Each has its own          *)
(* specification; the variables of the others stay at rest.                *)
(*                                                                         *)
(* A pandas DataFrame is a record [none, cols, rows]: none marks Python's  *)
(* None, cols is the set of column names and rows the sequence of rows,    *)
(* each a record column -> value.  The frames read here carry the default  *)
(* RangeIndex 0..n-1 (pd.read_csv, DataFrame.copy), so the index label i   *)
(* of the code is position i+1 of rows.                                    *)
(*                                                                         *)
(* Numbers are exact decimals held as integers over a fixed denominator    *)
(* (the code uses binary floating point; its rounding is not modelled):    *)
(*    settings values                               value * 10            *)
(*    sales_units, unit_price, sales_revenue        value                 *)
(*    collections                                   value * 10            *)
(*    desired_ending_inventory, beginning_inventory,                       *)
(*    purchases_units                               value * 10            *)
(*    purchases_cost                                value * 100           *)
(*    disbursements, ending_cash                    value * 1000          *)
(*    beginning_cash (column)                       value * 10            *)
(*    total_revenue                                 value                 *)
(*    total_cogs, gross_profit                      value * 10            *)
(*    cash, total_assets                            value * 1000          *)
(*    inventory                                     value * 100           *)
(*    receivables                                   value * 10            *)
(*    external_financing, equity,                                          *)
(*    liabilities_equity                            value * 10000         *)
(***************************************************************************)
EXTENDS Integers, Sequences, FiniteSets, TLC

VARIABLES
    data,           \* the input table handed to the first stage
    settings,       \* BudgetCalculator.settings
    sales_data,     \* result of compute_sales_revenue
    collections,    \* result of compute_collections
    purchases,      \* result of compute_purchases
    cash_budget,    \* result of compute_cash_budget
    income_stmt,    \* result of compute_income_statement
    balance_sheet,  \* result of compute_balance_sheet
    pc,             \* position of the caller
    exc,            \* the exception that escaped the last stage called, or "none"
    run_settings,   \* history: the settings mapping as it was when the run started
    frames,         \* the DataFrame objects of a caller and the names bound to them
    mgr,            \* a SettingsManager, its settings file and its last call
    dm,             \* a DataManager's output directory and its last call
    legacy,         \* the state of master_budget_gui.build_gui
    twice,          \* a window's pipeline, run and run again on one calculator
    win             \* a MainWindow: its managers, calculator, entries and data

\* The state outside the engine's own.
ext == <<run_settings, frames, mgr, dm, legacy, twice, win>>

\* The engine's own state.
engine == <<data, settings, sales_data, collections, purchases, cash_budget,
            income_stmt, balance_sheet, pc, exc>>

\* What a step on the DataFrame objects leaves alone.
beside_frames == <<engine, run_settings, mgr, dm, legacy, twice, win>>

\* What a call of the SettingsManager leaves alone.
beside_mgr == <<engine, run_settings, frames, dm, legacy, twice, win>>

\* What a call of the DataManager leaves alone.
beside_dm == <<engine, run_settings, frames, mgr, legacy, twice, win>>

\* What an event of master_budget_gui leaves alone.
beside_legacy == <<engine, run_settings, frames, mgr, dm, twice, win>>

\* What a stage of the pipeline run again leaves alone.
beside_twice == <<engine, run_settings, frames, mgr, dm, legacy, win>>

\* What an event of the MainWindow leaves alone.
beside_win == <<engine, run_settings, frames, mgr, dm, legacy, twice>>

vars == <<data, settings, sales_data, collections, purchases, cash_budget,
          income_stmt, balance_sheet, pc, exc, ext>>

\* ------------------------------------------------------------------ bounds

\* Longest input table.
MaxPeriods == 3

\* ------------------------------------------------------------ fixed point

\* Denominator of a settings value: 6 stands for 0.6.
Scale == 10

\* The literal 0.6 of cost_per_unit, over Scale.
CostRatio == 6

\* ------------------------------------------------------------- DataFrames

None == [none |-> TRUE, cols |-> {}, rows |-> <<>>]

DataFrame(cols, rows) == [none |-> FALSE, cols |-> cols, rows |-> rows]

\* pd.DataFrame()
EmptyDataFrame == DataFrame({}, <<>>)

\* DataFrame.empty: an axis of length 0.
IsEmpty(df) == Len(df.rows) = 0 \/ df.cols = {}

\* `x is None or x.empty`
IsNoneOrEmpty(df) == df.none \/ IsEmpty(df)

\* df[col] = value on one row: the row with the column added or overwritten.
SetCol(row, col, value) == (col :> value) @@ row

\* df.loc[i, col] = value, i a position of rows.
SetCell(rows, i, col, value) == [rows EXCEPT ![i] = SetCol(rows[i], col, value)]

\* ------------------------------------------------------- results of a call

Ok(df) == [raised |-> "none", df |-> df]

Raise(e) == [raised |-> e, df |-> None]

\* A guard that fails fast on a None or empty input.
EmptyInputRaises == Raise("ValueError")

\* `return pd.DataFrame()` of the guard that opens every stage.
EmptyInputResult == Ok(EmptyDataFrame)

\* self.settings[key]: KeyError when the mapping lacks the key.
HasKeys(s, keys) == keys \subseteq DOMAIN s

\* ---------------------------------------------------------------- revenue

\* Revenue taken as the sum of the two columns.
SalesRevenueSum(units, price) == units + price

\* sales_units * unit_price of one row.
SalesRevenue(units, price) == units * price

compute_sales_revenue(d) ==
    IF IsNoneOrEmpty(d) THEN EmptyInputResult
    ELSE IF ~({"sales_units", "unit_price"} \subseteq d.cols) THEN Raise("KeyError")
    ELSE Ok(DataFrame(d.cols \cup {"sales_revenue"},
                      [i \in 1..Len(d.rows) |->
                          SetCol(d.rows[i], "sales_revenue",
                                 SalesRevenue(d.rows[i].sales_units,
                                              d.rows[i].unit_price))]))

\* ------------------------------------------------------------ collections

\* current_revenue * self.settings['sales_collection_current']
CurrentCollections(rows, i, s) == rows[i].sales_revenue * s.sales_collection_current

\* A scan that reads the predecessor of the first row too (Python's index -1).
PreviousCollectionsWrapping(rows, i, s) ==
    rows[IF i > 1 THEN i - 1 ELSE Len(rows)].sales_revenue * s.sales_collection_next

\* `if i > 0`: prev_revenue * self.settings['sales_collection_next'], else nothing added.
PreviousCollections(rows, i, s) ==
    IF i > 1 THEN rows[i-1].sales_revenue * s.sales_collection_next ELSE 0

\* One pass of the loop body on row i.
CollectionsStep(rows, i, s) ==
    LET r1 == SetCell(rows, i, "collections",
                      rows[i].collections + CurrentCollections(rows, i, s))
    IN  SetCell(r1, i, "collections",
                r1[i].collections + PreviousCollections(r1, i, s))

RECURSIVE CollectionsLoop(_, _, _)
CollectionsLoop(rows, i, s) ==
    IF i > Len(rows) THEN rows
    ELSE CollectionsLoop(CollectionsStep(rows, i, s), i + 1, s)

\* The settings keys the scan of n rows subscripts.
CollectionsKeys(n) ==
    {"sales_collection_current"} \cup (IF n > 1 THEN {"sales_collection_next"} ELSE {})

compute_collections(sd, s) ==
    IF IsNoneOrEmpty(sd) THEN EmptyInputResult
    ELSE IF ~("sales_revenue" \in sd.cols) THEN Raise("KeyError")
    ELSE IF ~HasKeys(s, CollectionsKeys(Len(sd.rows))) THEN Raise("KeyError")
    ELSE LET init == [i \in 1..Len(sd.rows) |-> SetCol(sd.rows[i], "collections", 0)]
         IN  Ok(DataFrame(sd.cols \cup {"collections"}, CollectionsLoop(init, 1, s)))

\* -------------------------------------------------------------- purchases

\* purchases['unit_price'] * 0.6, over Scale.
CostPerUnit(price) == price * CostRatio

\* `if i < len(purchases) - 1`: next_q_sales * ending_inventory_pct; the last row
\* keeps the 0.0 the column was created with.
DesiredEndingInventory(rows, i, s) ==
    IF i < Len(rows) THEN rows[i+1].sales_units * s.ending_inventory_pct
    ELSE rows[i].desired_ending_inventory

\* `if i > 0`: the previous row's desired_ending_inventory; row 0 keeps its 0.0.
BeginningInventory(rows, i) ==
    IF i > 1 THEN rows[i-1].desired_ending_inventory ELSE rows[i].beginning_inventory

\* A schedule that never orders a negative quantity.
PurchasesUnitsClamped(units, desired, beginning) ==
    IF units * Scale + desired - beginning < 0 THEN 0
    ELSE units * Scale + desired - beginning

\* sales_units + desired_ending_inventory - beginning_inventory, over Scale.
PurchasesUnits(units, desired, beginning) == units * Scale + desired - beginning

\* purchases_units * cost_per_unit.iloc[i], over Scale * Scale.
PurchasesCost(pu, price) == pu * CostPerUnit(price)

PurchasesStep(rows, i, s) ==
    LET r1 == SetCell(rows, i, "desired_ending_inventory",
                      DesiredEndingInventory(rows, i, s))
        r2 == SetCell(r1, i, "beginning_inventory", BeginningInventory(r1, i))
        r3 == SetCell(r2, i, "purchases_units",
                      PurchasesUnits(r2[i].sales_units,
                                     r2[i].desired_ending_inventory,
                                     r2[i].beginning_inventory))
    IN  SetCell(r3, i, "purchases_cost",
                PurchasesCost(r3[i].purchases_units, r3[i].unit_price))

RECURSIVE PurchasesLoop(_, _, _)
PurchasesLoop(rows, i, s) ==
    IF i > Len(rows) THEN rows
    ELSE PurchasesLoop(PurchasesStep(rows, i, s), i + 1, s)

PurchasesKeys(n) == IF n > 1 THEN {"ending_inventory_pct"} ELSE {}

PurchasesCols ==
    {"desired_ending_inventory", "beginning_inventory", "purchases_units",
     "purchases_cost"}

compute_purchases(sd, s) ==
    IF IsNoneOrEmpty(sd) THEN EmptyInputResult
    ELSE IF ~({"sales_units", "unit_price"} \subseteq sd.cols) THEN Raise("KeyError")
    ELSE IF ~HasKeys(s, PurchasesKeys(Len(sd.rows))) THEN Raise("KeyError")
    ELSE LET init == [i \in 1..Len(sd.rows) |->
                         [desired_ending_inventory |-> 0, beginning_inventory |-> 0,
                          purchases_units |-> 0, purchases_cost |-> 0] @@ sd.rows[i]]
         IN  Ok(DataFrame(sd.cols \cup PurchasesCols, PurchasesLoop(init, 1, s)))

\* ------------------------------------------------------------ cash budget

\* Payments computed on the unit count instead of the cost (compute_disbursements
\* of the script master_budget_gui.py), brought to the same denominator.
DisbursementsOnUnits(prows, i, s) ==
    Scale * (prows[i].purchases_units * s.purchases_payment_current
             + (IF i > 1 THEN prows[i-1].purchases_units * s.purchases_payment_next
                ELSE 0))

\* purchases_cost[i] * purchases_payment_current, plus for i > 0
\* purchases_cost[i-1] * purchases_payment_next; over Scale^3.
Disbursements(prows, i, s) ==
    prows[i].purchases_cost * s.purchases_payment_current
    + (IF i > 1 THEN prows[i-1].purchases_cost * s.purchases_payment_next ELSE 0)

\* A balance that restarts from the setting in every period.
EndingCashFromSetting(rows, i, s) ==
    s.beginning_cash * Scale * Scale + rows[i].collections * Scale * Scale
    - rows[i].disbursements

\* `if i == 0`: beginning_cash + collections - disbursements, else
\* ending_cash[i-1] + collections - disbursements; over Scale^3.
EndingCash(rows, i, s) ==
    (IF i = 1 THEN s.beginning_cash * Scale * Scale ELSE rows[i-1].ending_cash)
    + rows[i].collections * Scale * Scale - rows[i].disbursements

CashBudgetStep(rows, prows, i, s) ==
    LET r1 == SetCell(rows, i, "disbursements",
                      rows[i].disbursements + Disbursements(prows, i, s))
    IN  SetCell(r1, i, "ending_cash", EndingCash(r1, i, s))

RECURSIVE CashBudgetLoop(_, _, _, _)
CashBudgetLoop(rows, prows, i, s) ==
    IF i > Len(rows) THEN rows
    ELSE CashBudgetLoop(CashBudgetStep(rows, prows, i, s), prows, i + 1, s)

CashBudgetKeys(n) ==
    {"beginning_cash", "purchases_payment_current"}
    \cup (IF n > 1 THEN {"purchases_payment_next"} ELSE {})

CashBudgetCols == {"disbursements", "beginning_cash", "ending_cash"}

compute_cash_budget(c, p, s) ==
    IF IsNoneOrEmpty(c) \/ IsNoneOrEmpty(p) THEN EmptyInputResult
    ELSE IF ~HasKeys(s, {"beginning_cash"}) THEN Raise("KeyError")
    ELSE IF ~("purchases_cost" \in p.cols) \/ Len(p.rows) < Len(c.rows)
         THEN Raise("KeyError")
    ELSE IF ~HasKeys(s, CashBudgetKeys(Len(c.rows))) THEN Raise("KeyError")
    ELSE IF ~("collections" \in c.cols) THEN Raise("KeyError")
    ELSE LET init == [i \in 1..Len(c.rows) |->
                         [disbursements |-> 0, beginning_cash |-> s.beginning_cash,
                          ending_cash |-> 0] @@ c.rows[i]]
         IN  Ok(DataFrame(c.cols \cup CashBudgetCols,
                          CashBudgetLoop(init, p.rows, 1, s)))

\* ------------------------------------------------------- income statement

\* Cost of goods sold taken as the count of units (Total COGS of the script
\* master_budget_gui.py sums unit counts), over Scale.
TotalCogsOnUnits(units, price) == units * Scale

\* sales_units * (unit_price * 0.6), over Scale.
TotalCogs(units, price) == units * CostPerUnit(price)

\* total_revenue - total_cogs, over Scale.
GrossProfit(revenue, cogs) == revenue * Scale - cogs

compute_income_statement(sd) ==
    IF IsNoneOrEmpty(sd) THEN EmptyInputResult
    ELSE IF ~({"quarter", "sales_units", "unit_price"} \subseteq sd.cols)
         THEN Raise("KeyError")
    ELSE Ok(DataFrame({"quarter", "total_revenue", "total_cogs", "gross_profit"},
            [i \in 1..Len(sd.rows) |->
                LET row == sd.rows[i]
                    rev == SalesRevenue(row.sales_units, row.unit_price)
                    cogs == TotalCogs(row.sales_units, row.unit_price)
                IN  [quarter |-> row.quarter, total_revenue |-> rev,
                     total_cogs |-> cogs, gross_profit |-> GrossProfit(rev, cogs)]]))

\* ---------------------------------------------------------- balance sheet

\* Inventory valued at the sale price (compute_balance_sheet of the script
\* master_budget_gui.py), brought to the same denominator.
InventoryAtSalePrice(desired, price) == desired * (price * Scale)

\* desired_ending_inventory * (unit_price * 0.6), over Scale * Scale.
Inventory(desired, price) == desired * CostPerUnit(price)

\* sales_revenue * (1 - sales_collection_current), over Scale.
Uncollected(revenue, s) == revenue * (Scale - s.sales_collection_current)

\* A recurrence that forgets what the previous period's sales brought in.
ReceivablesNoRelease(srows, acc, i, s) ==
    IF i = 1 THEN Uncollected(srows[i].sales_revenue, s)
    ELSE acc[i-1] + Uncollected(srows[i].sales_revenue, s)

\* The value appended for row i, acc the list built so far.
Receivables(srows, acc, i, s) ==
    IF i = 1 THEN Uncollected(srows[i].sales_revenue, s)
    ELSE acc[i-1] + Uncollected(srows[i].sales_revenue, s)
         - srows[i-1].sales_revenue * s.sales_collection_next

RECURSIVE ReceivablesLoop(_, _, _, _)
ReceivablesLoop(srows, acc, i, s) ==
    IF i > Len(srows) THEN acc
    ELSE ReceivablesLoop(srows, Append(acc, Receivables(srows, acc, i, s)), i + 1, s)

\* cash + inventory + receivables, over Scale^3.
TotalAssets(cash, inventory, receivables) ==
    cash + inventory * Scale + receivables * Scale * Scale

\* total_assets * external_financing_ratio, over Scale^4.
ExternalFinancing(assets, s) == assets * s.external_financing_ratio

\* Equity taken as the whole of the assets.
EquityNoPlug(assets, financing) == assets * Scale

\* total_assets - external_financing, over Scale^4.
Equity(assets, financing) == assets * Scale - financing

\* external_financing + equity, over Scale^4.
LiabilitiesEquity(financing, equity) == financing + equity

BalanceSheetKeys(n) ==
    {"sales_collection_current", "external_financing_ratio"}
    \cup (IF n > 1 THEN {"sales_collection_next"} ELSE {})

BalanceSheetCols ==
    {"quarter", "cash", "inventory", "receivables", "total_assets",
     "external_financing", "equity", "liabilities_equity"}

compute_balance_sheet(cb, p, sd, s) ==
    IF IsNoneOrEmpty(cb) \/ IsNoneOrEmpty(p) \/ IsNoneOrEmpty(sd) THEN EmptyInputResult
    ELSE IF ~("quarter" \in sd.cols /\ "ending_cash" \in cb.cols
              /\ "desired_ending_inventory" \in p.cols
              /\ {"unit_price", "sales_revenue"} \subseteq sd.cols)
         THEN Raise("KeyError")
    ELSE IF ~HasKeys(s, BalanceSheetKeys(Len(sd.rows))) THEN Raise("KeyError")
    ELSE LET n == Len(sd.rows)
             receivables == ReceivablesLoop(sd.rows, <<>>, 1, s)
         IN  Ok(DataFrame(BalanceSheetCols,
                [i \in 1..n |->
                    LET cash == cb.rows[i].ending_cash
                        inv == Inventory(p.rows[i].desired_ending_inventory,
                                         sd.rows[i].unit_price)
                        ta == TotalAssets(cash, inv, receivables[i])
                        ef == ExternalFinancing(ta, s)
                        eq == Equity(ta, ef)
                    IN  [quarter |-> sd.rows[i].quarter, cash |-> cash,
                         inventory |-> inv, receivables |-> receivables[i],
                         total_assets |-> ta, external_financing |-> ef,
                         equity |-> eq,
                         liabilities_equity |-> LiabilitiesEquity(ef, eq)]]))

\* ------------------------------------------------------------------ inputs

UnitsDomain == {1, 3}

PriceDomain == {1, 2}

QuarterName(i) == <<"Q1", "Q2", "Q3", "Q4", "Q5", "Q6", "Q7", "Q8">>[i]

InputCols == {"quarter", "sales_units", "unit_price"}

\* The tables of n rows.
Tables(n) ==
    { DataFrame(InputCols,
                [i \in 1..n |-> [quarter |-> QuarterName(i),
                                 sales_units |-> f[i][1],
                                 unit_price |-> f[i][2]]]) :
        f \in [1..n -> UnitsDomain \X PriceDomain] }

\* What DataManager.load_csv hands over: the required columns, zero rows or more.
LoadedTables == UNION { Tables(n) : n \in 0..MaxPeriods }

SettingsDomain ==
    [sales_collection_current : {6, 7},
     sales_collection_next : {3, 4},
     purchases_payment_current : {5, 6},
     purchases_payment_next : {4, 5},
     ending_inventory_pct : {2, 15},
     external_financing_ratio : {1, 3},
     working_capital_turnover : {20},
     beginning_cash : {-20, 10}]

\* SettingsManager.default_settings.
DefaultSettings ==
    [sales_collection_current |-> 6,
     sales_collection_next |-> 4,
     purchases_payment_current |-> 5,
     purchases_payment_next |-> 5,
     ending_inventory_pct |-> 2,
     external_financing_ratio |-> 3,
     working_capital_turnover |-> 20,
     beginning_cash |-> 1000000]

\* -------------------------------------------------------- SettingsManager

\* A Python value handed to or held by the SettingsManager: k is its kind, v the
\* number it stands for (times Scale) and s its text when it is a str.
Float(v) == [k |-> "float", v |-> v, s |-> ""]
PyInt(v) == [k |-> "int", v |-> v, s |-> ""]
NaN == [k |-> "nan", v |-> 0, s |-> ""]
Str(s) == [k |-> "str", v |-> 0, s |-> s]
PyNone == [k |-> "none", v |-> 0, s |-> ""]

\* isinstance(value, (int, float)): float('nan') is a float.
IsNumber(x) == x.k \in {"int", "float", "nan"}

\* The text format(value, '.2f') gives for the floats the entries show, and
\* str(value) for the ints, with the number each text stands for.
TwoDecimals ==
    ("0.60" :> 6) @@ ("0.40" :> 4) @@ ("0.50" :> 5) @@ ("0.20" :> 2) @@ ("0.30" :> 3)
        @@ ("2.00" :> 20) @@ ("0.70" :> 7)
Digits == ("2" :> 20) @@ ("100000" :> 1000000)

\* The strings float() parses, with the number each stands for.
Numerals == Digits @@ TwoDecimals

\* float(value): [raised, val].
PyFloat(x) ==
    CASE x.k \in {"float", "nan"} -> [raised |-> "none", val |-> x]
      [] x.k = "int" -> [raised |-> "none", val |-> Float(x.v)]
      [] x.k = "str" -> IF x.s = "nan" THEN [raised |-> "none", val |-> NaN]
                        ELSE IF x.s \in DOMAIN Numerals
                             THEN [raised |-> "none", val |-> Float(Numerals[x.s])]
                             ELSE [raised |-> "ValueError", val |-> x]
      [] OTHER -> [raised |-> "TypeError", val |-> x]

\* Python's ==, <, > on numbers: every comparison with NaN is False.
PyEq(x, y) == x.k # "nan" /\ y.k # "nan" /\ x.v = y.v
PyLt(x, n) == x.k # "nan" /\ x.v < n
PyGt(x, n) == x.k # "nan" /\ x.v > n

\* The keys of default_settings in the order the dict literal inserts them, which
\* is the order .items() yields them in.
KeyOrder ==
    <<"sales_collection_current", "sales_collection_next", "purchases_payment_current",
      "purchases_payment_next", "ending_inventory_pct", "external_financing_ratio",
      "working_capital_turnover", "beginning_cash">>

\* self.default_settings: seven float literals and the int 100000.
default_settings ==
    [key \in DOMAIN DefaultSettings |->
        IF key = "beginning_cash" THEN PyInt(DefaultSettings[key])
        ELSE Float(DefaultSettings[key])]

\* What a method hands back: ok is the bool, kind and key the message (the
\* sentence and the setting it names), val the value returned by a getter.
Return(ok, kind, key, val) == [ok |-> ok, kind |-> kind, key |-> key, val |-> val]

\* get_setting
get_setting(st, key) ==
    IF key \in DOMAIN st THEN st[key]
    ELSE IF key \in DOMAIN default_settings THEN default_settings[key]
    ELSE Float(0)

\* set_setting: [settings, ok].
set_setting(st, key, value) ==
    IF key \in DOMAIN default_settings
    THEN LET f == PyFloat(value) IN
         IF f.raised = "none" THEN [settings |-> (key :> f.val) @@ st, ok |-> TRUE]
         ELSE [settings |-> st, ok |-> FALSE]
    ELSE [settings |-> st, ok |-> FALSE]

\* get_all_settings: `return self.settings.copy()`.  val is the mapping handed
\* back, same tells whether it is the object self.settings itself.
get_all_settings_no_copy(st) == [same |-> TRUE, val |-> st]
get_all_settings(st) == [same |-> FALSE, val |-> st]

\* f"{value:.2f}" if isinstance(value, float) else str(value)
FormatSetting(x) ==
    LET texts == IF x.k = "int" THEN Digits ELSE TwoDecimals
    IN  Str(CHOOSE s \in DOMAIN texts : texts[s] = x.v)

\* update_settings: the items one after the other; a value float() refuses ends
\* the loop with the earlier items applied.
RECURSIVE update_settings(_, _)
update_settings(st, items) ==
    IF items = <<>> THEN [settings |-> st, ok |-> TRUE]
    ELSE LET key == Head(items)[1]
             f == PyFloat(Head(items)[2])
         IN  IF key \notin DOMAIN default_settings THEN update_settings(st, Tail(items))
             ELSE IF f.raised # "none" THEN [settings |-> st, ok |-> FALSE]
             ELSE update_settings((key :> f.val) @@ st, Tail(items))

\* The keys validate_settings checks against 1.0, in the order of its list.
percentage_settings ==
    <<"sales_collection_current", "sales_collection_next", "purchases_payment_current",
      "purchases_payment_next", "ending_inventory_pct", "external_financing_ratio">>

Min(S) == CHOOSE i \in S : \A j \in S : i <= j

\* validate_settings: the first loop stops at the first value that is no number
\* or is below 0, the second at the first percentage above 1.0.
NegativeAllowedForCash(st, key) == key # "beginning_cash" /\ PyLt(st[key], 0)
Negative(st, key) == PyLt(st[key], 0)

validate_settings(st) ==
    LET keys == [i \in 1..Len(KeyOrder) |-> KeyOrder[i]]
        bad == {i \in DOMAIN keys : keys[i] \in DOMAIN st
                                      /\ (~IsNumber(st[keys[i]]) \/ Negative(st, keys[i]))}
        over == {i \in DOMAIN percentage_settings :
                    \/ percentage_settings[i] \notin DOMAIN st
                    \/ PyGt(st[percentage_settings[i]], Scale)}
    IN  IF bad # {}
        THEN IF ~IsNumber(st[keys[Min(bad)]])
             THEN Return(FALSE, "must be a number", keys[Min(bad)], PyNone)
             ELSE Return(FALSE, "must be non-negative", keys[Min(bad)], PyNone)
        ELSE IF over # {}
        THEN IF percentage_settings[Min(over)] \notin DOMAIN st
             THEN Return(FALSE, "Settings validation error", percentage_settings[Min(over)],
                         PyNone)
             ELSE Return(FALSE, "must be between 0 and 1", percentage_settings[Min(over)],
                         PyNone)
        ELSE Return(TRUE, "Settings validation passed", "", PyNone)

\* json.dump writes an int by its digits and a float by float.__repr__: a literal
\* with a point or an exponent that reads back as the same float, or NaN.
JsonNumberTruncated(x) == [lit |-> "int", v |-> (x.v \div Scale) * Scale]
JsonNumber(x) ==
    CASE x.k = "int" -> [lit |-> "int", v |-> x.v]
      [] x.k = "nan" -> [lit |-> "NaN", v |-> 0]
      [] OTHER -> [lit |-> "real", v |-> x.v]

json_dump(st) == [key \in DOMAIN st |-> JsonNumber(st[key])]

\* json.load: digits alone are an int, any other number literal a float.
JsonValue(t) ==
    CASE t.lit = "int" -> PyInt(t.v)
      [] t.lit = "NaN" -> NaN
      [] OTHER -> Float(t.v)

\* loaded_settings.items(): the keys in the order json.dump wrote them.
json_load(content) ==
    LET keys == SelectSeq(KeyOrder, LAMBDA key : key \in DOMAIN content)
    IN  [i \in DOMAIN keys |-> <<keys[i], JsonValue(content[keys[i]])>>]

\* The settings file: absent, a JSON document, or what an interrupted write left.
NoFile == [state |-> "absent", content |-> <<>>]

\* SettingsManager(): the defaults, no call made yet.  saved is history: the
\* settings the last save_to_file that returned True wrote; attempts is history:
\* how many times the last call tried its file operation.
NewManager ==
    [settings |-> default_settings,
     file |-> NoFile,
     saved |-> default_settings,
     op |-> [name |-> "__init__", args |-> <<>>],
     ret |-> Return(TRUE, "", "", PyNone),
     attempts |-> 0]

\* ------------------------------------------------------------ DataManager

\* self.required_columns
required_columns == <<"quarter", "sales_units", "unit_price">>

\* A cell of a CSV file: lit is what its text is (digits alone, a number with a
\* point, other text, nothing), v the number it stands for (times Scale), s the
\* text.
Tok(lit, v, s) == [lit |-> lit, v |-> v, s |-> s]

\* pd.read_csv infers a dtype per column: int64 when every cell is digits,
\* float64 when every cell is a number or blank, object otherwise and for a
\* column without rows.
ColumnDtype(file, col) ==
    IF Len(file.rows) = 0 THEN "object"
    ELSE IF \A i \in DOMAIN file.rows : file.rows[i][col].lit = "int" THEN "int64"
    ELSE IF \A i \in DOMAIN file.rows : file.rows[i][col].lit \in {"int", "real", "blank"}
         THEN "float64"
    ELSE "object"

\* The cell read_csv stores: in an object column the text itself; a blank cell
\* is NaN in a float64 and in an object column.
CellValue(tok, dtype) ==
    CASE dtype = "int64" -> PyInt(tok.v)
      [] tok.lit = "blank" -> NaN
      [] dtype = "float64" -> Float(tok.v)
      [] OTHER -> Str(tok.s)

\* df is None
CsvNone == [none |-> TRUE, cols |-> {}, dtypes |-> <<>>, rows |-> <<>>]

\* pd.read_csv(filename)
read_csv(file) ==
    [none |-> FALSE,
     cols |-> file.cols,
     dtypes |-> [col \in file.cols |-> ColumnDtype(file, col)],
     rows |-> [i \in DOMAIN file.rows |->
                 [col \in file.cols |->
                     CellValue(file.rows[i][col], ColumnDtype(file, col))]]]

\* df.iterrows() builds each row as a Series of df.values: of dtype int64 when
\* every column is int64, float64 when every column is numeric, object otherwise.
RowsDtype(df) ==
    IF \A col \in df.cols : df.dtypes[col] = "int64" THEN "int64"
    ELSE IF \A col \in df.cols : df.dtypes[col] \in {"int64", "float64"} THEN "float64"
    ELSE "object"

\* row[col]: a numpy.int64 out of an int64 Series (no instance of int or float), a
\* numpy.float64 out of a float64 Series (an instance of float), and the Python
\* object itself out of an object Series.
RowValue(df, i, col) ==
    LET x == df.rows[i][col] IN
    CASE RowsDtype(df) = "int64" -> [k |-> "numpy.int64", v |-> x.v, s |-> ""]
      [] RowsDtype(df) = "float64" -> IF x.k = "nan" THEN NaN ELSE Float(x.v)
      [] OTHER -> x

\* What load_csv and validate_data hand back: the bool, the table (None when
\* there is none), the sentence of the message and the columns it names.
Verdict(ok, df, kind, cols) == [ok |-> ok, df |-> df, kind |-> kind, cols |-> cols]

\* load_csv; unreadable: pd.read_csv raised.
load_csv(file, unreadable) ==
    IF unreadable THEN Verdict(FALSE, CsvNone, "Error loading CSV", <<>>)
    ELSE LET df == read_csv(file)
             ok(i) == LET u == RowValue(df, i, "sales_units")
                          p == RowValue(df, i, "unit_price")
                      IN  IsNumber(u) /\ IsNumber(p) /\ PyGt(u, 0) /\ PyGt(p, 0)
         IN  IF \E i \in DOMAIN required_columns : required_columns[i] \notin df.cols
             THEN Verdict(FALSE, CsvNone, "CSV must contain columns", required_columns)
             ELSE IF \E i \in DOMAIN df.rows : ~ok(i)
             THEN Verdict(FALSE, CsvNone,
                          "Sales units and unit price must be positive numbers", <<>>)
             ELSE Verdict(TRUE, df, "", <<>>)

\* (df[col] <= 0): False on NaN.
PyLe(x, n) == x.k # "nan" /\ x.v <= n

\* validate_data
validate_data(df) ==
    IF df.none \/ Len(df.rows) = 0 \/ df.cols = {}
    THEN Verdict(FALSE, CsvNone, "No data available", <<>>)
    ELSE LET missing_cols == SelectSeq(required_columns, LAMBDA col : col \notin df.cols)
             checked == <<"sales_units", "unit_price">>
             text == SelectSeq(checked, LAMBDA col : df.dtypes[col] = "object")
         IN  IF missing_cols # <<>>
             THEN Verdict(FALSE, CsvNone, "Missing required columns", missing_cols)
             ELSE IF text # <<>>
             THEN Verdict(FALSE, CsvNone, "must contain numeric values", <<Head(text)>>)
             ELSE IF \E i \in DOMAIN df.rows :
                        PyLe(df.rows[i].sales_units, 0) \/ PyLe(df.rows[i].unit_price, 0)
             THEN Verdict(FALSE, CsvNone,
                          "Sales units and unit price must be positive numbers", <<>>)
             ELSE Verdict(TRUE, CsvNone, "Data validation passed", <<>>)

\* DataManager(): no call made yet, the directory "outputs" not there.  file is
\* the CSV file the user picks, report the sheets of the last workbook written;
\* attempts is history: how many times the last call tried its file operation.
NewDataManager ==
    [file |-> [cols |-> {}, rows |-> <<>>],
     outdir |-> "absent",
     report |-> {},
     op |-> [name |-> "__init__", args |-> <<>>],
     ret |-> Verdict(TRUE, CsvNone, "", <<>>),
     attempts |-> 0]

\* ---------------------------------------------------- master_budget_gui.py

\* The single-file script has its own computations, on Python lists.  Its numbers
\* are exact decimals over these denominators:
\*    policies                                      value * 10
\*    Sales Revenue, Total Revenue                  value
\*    inflow, desired_ending_inv, beginning_inventory,
\*    purchases_units, Total COGS, Gross Profit,
\*    Inventory Value, Receivables                  value * 10
\*    outflow, cash, Ending Cash, Assets            value * 100
\*    External Financing                            value * 1000
\*    Working Capital                               (num / den) / 100
\*    Liabilities & Equity                          (num / den) / 1000

DEFAULT_POLICIES ==
    ("Sales-collection % current quarter" :> 7)
        @@ ("Sales-collection % next quarter" :> 3)
        @@ ("Purchases-payment % current quarter" :> 6)
        @@ ("Purchases-payment % next quarter" :> 4)
        @@ ("Ending-inventory % of next quarter" :> 2)
        @@ ("External-financing ratio %" :> 1)
        @@ ("Working-capital turnover ratio" :> 20)

\* quarters = ['Q1', 'Q2', 'Q3', 'Q4']
quarters == <<"Q1", "Q2", "Q3", "Q4">>

RECURSIVE Sum(_)
Sum(xs) == IF xs = <<>> THEN 0 ELSE Head(xs) + Sum(Tail(xs))

\* A quotient kept as a fraction.
Ratio(num, den) == [num |-> num, den |-> den]

legacy_compute_sales(inputs_df) ==
    [i \in DOMAIN inputs_df |->
        ("Sales Revenue" :> inputs_df[i].sales_units * inputs_df[i].unit_price)
            @@ inputs_df[i]]

legacy_compute_collections(sales_df, policies) ==
    LET collect_current == policies["Sales-collection % current quarter"]
        collect_next == policies["Sales-collection % next quarter"]
    IN  [i \in DOMAIN sales_df |->
            sales_df[i]["Sales Revenue"] * collect_current
                + (IF i > 1 THEN sales_df[i - 1]["Sales Revenue"] * collect_next ELSE 0)]

\* The third list starts as [0], takes begin_inv in every turn of the loop and
\* loses its last element: it is begin_inv moved one place to the right.
legacy_compute_purchases(inputs_df, policies) ==
    LET ending_inv_pct == policies["Ending-inventory % of next quarter"]
        n == Len(inputs_df)
        desired_ending_inv ==
            [i \in 1..n |->
                (IF i + 1 <= n THEN inputs_df[i + 1].sales_units
                 ELSE inputs_df[i].sales_units) * ending_inv_pct]
        begin_inv == [i \in 1..n |-> IF i = 1 THEN 0 ELSE desired_ending_inv[i - 1]]
    IN  [purchases_units |->
            [i \in 1..n |-> inputs_df[i].sales_units * Scale + desired_ending_inv[i]
                               - begin_inv[i]],
         desired_ending_inv |-> desired_ending_inv,
         beginning_inventory |-> SubSeq(<<0>> \o begin_inv, 1, n)]

legacy_compute_disbursements(purchases_units, policies) ==
    LET pay_current == policies["Purchases-payment % current quarter"]
        pay_next == policies["Purchases-payment % next quarter"]
    IN  [i \in DOMAIN purchases_units |->
            purchases_units[i] * pay_current
                + (IF i > 1 THEN purchases_units[i - 1] * pay_next ELSE 0)]

\* The loop of compute_cash_budget, cash holding the periods done so far;
\* beginning_cash = 0.
RECURSIVE LegacyCashLoop(_, _, _)
LegacyCashLoop(cash, inflow, outflow) ==
    LET i == Len(cash) + 1 IN
    IF i > Len(inflow) THEN cash
    ELSE LET begin == IF i = 1 THEN 0 ELSE cash[i - 1]
         IN  LegacyCashLoop(Append(cash, begin + inflow[i] * Scale - outflow[i]),
                            inflow, outflow)

legacy_compute_cash_budget(inputs_df, inflow, outflow) ==
    LegacyCashLoop(<<>>, inflow, outflow)

legacy_compute_income_statement(sales_df, purchases_units) ==
    LET total_revenue == Sum([i \in DOMAIN sales_df |-> sales_df[i]["Sales Revenue"]])
        total_cogs == Sum(purchases_units)
    IN  <<("Total Revenue" :> total_revenue)
              @@ ("Total COGS" :> total_cogs)
              @@ ("Gross Profit" :> total_revenue * Scale - total_cogs)>>

\* working_capital = assets / wc_turnover if wc_turnover != 0 else 0
WorkingCapitalUnguarded(assets, wc_turnover) ==
    IF wc_turnover # 0 THEN [raised |-> "none", val |-> Ratio(assets * Scale, wc_turnover)]
    ELSE [raised |-> "ZeroDivisionError", val |-> Ratio(0, 1)]
WorkingCapital(assets, wc_turnover) ==
    IF wc_turnover # 0 THEN [raised |-> "none", val |-> Ratio(assets * Scale, wc_turnover)]
    ELSE [raised |-> "none", val |-> Ratio(0, 1)]

\* compute_balance_sheet, cash_list its parameter cash_budget: [raised, df].
legacy_compute_balance_sheet(cash_list, desired_ending_inv, sales_df, policies) ==
    LET last == Len(sales_df)
        ending_cash == cash_list[Len(cash_list)]
        inventory_value == desired_ending_inv[Len(desired_ending_inv)]
                               * sales_df[last].unit_price
        receivables == sales_df[last]["Sales Revenue"]
                           * policies["Sales-collection % next quarter"]
        assets == ending_cash + inventory_value * Scale + receivables * Scale
        external_financing == assets * policies["External-financing ratio %"]
        working_capital == WorkingCapital(assets, policies["Working-capital turnover ratio"])
    IN  [raised |-> working_capital.raised,
         df |-> <<("Assets" :> assets)
                    @@ ("Ending Cash" :> ending_cash)
                    @@ ("Inventory Value" :> inventory_value)
                    @@ ("Receivables" :> receivables)
                    @@ ("Liabilities & Equity" :>
                            Ratio(external_financing * working_capital.val.den
                                      + working_capital.val.num * Scale,
                                  working_capital.val.den))
                    @@ ("External Financing" :> external_financing)
                    @@ ("Working Capital" :> working_capital.val)>>]

\* A table of build_gui: None, or its rows.
NoTable == [none |-> TRUE, rows |-> <<>>]
Table(rows) == [none |-> FALSE, rows |-> rows]

\* A cell of a CSV file as pd.read_csv reads it, or of the input table: a number,
\* a blank (NaN in a file, '' in the table) or text float() refuses.
Num(v) == [k |-> "num", v |-> v]
Blank == [k |-> "nan", v |-> 0]
Text == [k |-> "text", v |-> 0]

\* What the input table hands over for a row: the row's cells, or the number of a
\* selected row.
TableRow(units, price) == [k |-> "row", sales_units |-> units, unit_price |-> price]
Selected == [k |-> "index", sales_units |-> Blank, unit_price |-> Blank]

\* table_data: the quarters with blank cells.
table_data == [i \in DOMAIN quarters |-> TableRow(Blank, Blank)]

\* build_gui(): the language 'en', four quarters of zeros, the default policies,
\* no report yet.  exc is the exception that left the event loop, which ends the
\* process; outputs is the files of the directory outputs/; table is the values of
\* the element '-INPUT-TABLE-'.
NewGui ==
    [lang |-> "en",
     outputs |-> {},
     table |-> table_data,
     inputs_df |-> [i \in DOMAIN quarters |->
                       [quarter |-> quarters[i], sales_units |-> 0, unit_price |-> 0]],
     policies |-> DEFAULT_POLICIES,
     cash_budget_df |-> NoTable,
     income_statement_df |-> NoTable,
     balance_sheet_df |-> NoTable,
     exc |-> "none"]

\* ----------------------------------------------------------------- actions

\* No DataFrame object yet, every name unbound (0).
NoFrames ==
    [heap |-> <<>>,
     ref |-> [data |-> 0, sales_data |-> 0, collections |-> 0, purchases |-> 0,
              cash_budget |-> 0, income_stmt |-> 0, balance_sheet |-> 0]]

\* A window's pipeline run and run again (specification SpecTwice below).
\* The local names of the handler, in the order the stages are called.
Pipeline ==
    <<"sales_data", "collections", "purchases", "cash_budget", "income_stmt",
      "balance_sheet">>

\* No stage has returned yet.
NoOutputs == [name \in {Pipeline[k] : k \in DOMAIN Pipeline} |-> None]

\* A window whose calculator was built on s and whose self.data is the table t.
NewRun(t, s) ==
    [heap |-> <<t>>,
     ref |-> [NoFrames.ref EXCEPT !.data = 1],
     calc |-> s,
     input |-> t,
     pc |-> 1,
     run |-> 1,
     first |-> NoOutputs,
     last |-> NoOutputs]

\* No window.
NoRuns == [NewRun(EmptyDataFrame, DefaultSettings) EXCEPT !.pc = 0, !.run = 0]

\* MainWindow(): the managers, a calculator on a copy of the settings, no data,
\* an entry per setting showing its value (specification SpecWindow below).
\* calc is the mapping the calculator holds (BudgetCalculator.__init__ keeps the
\* mapping it is given), report the sheets of the last workbook written, shown
\* the table in the results pane.
NewWindow ==
    [sm |-> default_settings,
     calc |-> get_all_settings(default_settings),
     setting_vars |-> [key \in DOMAIN default_settings |->
                          FormatSetting(get_setting(default_settings, key))],
     data |-> None,
     shown |-> None,
     report |-> {},
     op |-> "__init__",
     ok |-> TRUE]

\* The state outside the engine's own, at rest.
ExtInit ==
    /\ run_settings = settings
    /\ frames = NoFrames
    /\ mgr = NewManager
    /\ dm = NewDataManager
    /\ legacy = NewGui
    /\ twice = NoRuns
    /\ win = NewWindow

\* The engine at rest, constructed on the default settings: no stage is called.
EngineRest ==
    /\ pc = "rest"
    /\ data = None
    /\ settings = DefaultSettings
    /\ sales_data = None
    /\ collections = None
    /\ purchases = None
    /\ cash_budget = None
    /\ income_stmt = None
    /\ balance_sheet = None
    /\ exc = "none"
    /\ run_settings = settings

\* Two kinds of run.  pc = "revenue": the six stages in the order of
\* MainWindow.save_all_reports, on a table load_csv accepted, each stage fed the
\* results of the stages before it.  pc = "api": the stages called one at a time in
\* any order on whatever the result variables hold, None included.
Init ==
    /\ \/ /\ pc = "revenue"
          /\ data \in LoadedTables
          /\ settings \in SettingsDomain
       \/ /\ pc = "api"
          /\ data \in {None, EmptyDataFrame} \cup LoadedTables
          /\ settings = DefaultSettings
    /\ sales_data = None
    /\ collections = None
    /\ purchases = None
    /\ cash_budget = None
    /\ income_stmt = None
    /\ balance_sheet = None
    /\ exc = "none"
    /\ ExtInit

\* Where the caller stands after a stage called at `at` ended with r.
After(at, r, next) ==
    IF at = "api" THEN "api" ELSE IF r.raised = "none" THEN next ELSE "failed"

\* The variable a stage's result is bound to: untouched when the stage raised.
Bound(old, r) == IF r.raised = "none" THEN r.df ELSE old

ComputeSalesRevenue ==
    /\ pc \in {"revenue", "api"}
    /\ LET r == compute_sales_revenue(data) IN
        /\ exc' = r.raised
        /\ sales_data' = Bound(sales_data, r)
        /\ pc' = After(pc, r, "collections")
    /\ UNCHANGED <<ext, data, settings, collections, purchases, cash_budget,
                   income_stmt, balance_sheet>>

ComputeCollections ==
    /\ pc \in {"collections", "api"}
    /\ LET r == compute_collections(sales_data, settings) IN
        /\ exc' = r.raised
        /\ collections' = Bound(collections, r)
        /\ pc' = After(pc, r, "purchases")
    /\ UNCHANGED <<ext, data, settings, sales_data, purchases, cash_budget,
                   income_stmt, balance_sheet>>

ComputePurchases ==
    /\ pc \in {"purchases", "api"}
    /\ LET r == compute_purchases(sales_data, settings) IN
        /\ exc' = r.raised
        /\ purchases' = Bound(purchases, r)
        /\ pc' = After(pc, r, "cash_budget")
    /\ UNCHANGED <<ext, data, settings, sales_data, collections, cash_budget,
                   income_stmt, balance_sheet>>

ComputeCashBudget ==
    /\ pc \in {"cash_budget", "api"}
    /\ LET r == compute_cash_budget(collections, purchases, settings) IN
        /\ exc' = r.raised
        /\ cash_budget' = Bound(cash_budget, r)
        /\ pc' = After(pc, r, "income_statement")
    /\ UNCHANGED <<ext, data, settings, sales_data, collections, purchases,
                   income_stmt, balance_sheet>>

ComputeIncomeStatement ==
    /\ pc \in {"income_statement", "api"}
    /\ LET r == compute_income_statement(sales_data) IN
        /\ exc' = r.raised
        /\ income_stmt' = Bound(income_stmt, r)
        /\ pc' = After(pc, r, "balance_sheet")
    /\ UNCHANGED <<ext, data, settings, sales_data, collections, purchases,
                   cash_budget, balance_sheet>>

ComputeBalanceSheet ==
    /\ pc \in {"balance_sheet", "api"}
    /\ LET r == compute_balance_sheet(cash_budget, purchases, sales_data, settings) IN
        /\ exc' = r.raised
        /\ balance_sheet' = Bound(balance_sheet, r)
        /\ pc' = After(pc, r, "done")
    /\ UNCHANGED <<ext, data, settings, sales_data, collections, purchases,
                   cash_budget, income_stmt>>

Next ==
    \/ ComputeSalesRevenue
    \/ ComputeCollections
    \/ ComputePurchases
    \/ ComputeCashBudget
    \/ ComputeIncomeStatement
    \/ ComputeBalanceSheet

Spec == Init /\ [][Next]_vars

\* ------------------------------------------------------- a shared mapping

\* BudgetCalculator.__init__ keeps the mapping it is given (self.settings = settings,
\* no copy): the caller's mapping and self.settings are one object, here the one
\* variable settings.  The values the caller may write between two stages of a run.
CallerWrites ==
    {<<"sales_collection_current", 7>>, <<"ending_inventory_pct", 15>>,
     <<"beginning_cash", 10>>}

SharedInit ==
    /\ pc = "revenue"
    /\ data \in LoadedTables
    /\ settings = DefaultSettings
    /\ sales_data = None
    /\ collections = None
    /\ purchases = None
    /\ cash_budget = None
    /\ income_stmt = None
    /\ balance_sheet = None
    /\ exc = "none"
    /\ ExtInit

\* The caller assigns to a key of the mapping it passed to BudgetCalculator.
CallerChangesSettings ==
    /\ pc \notin {"done", "failed"}
    /\ \E w \in CallerWrites :
          /\ settings[w[1]] # w[2]
          /\ settings' = [settings EXCEPT ![w[1]] = w[2]]
    /\ UNCHANGED <<data, sales_data, collections, purchases, cash_budget,
                   income_stmt, balance_sheet, pc, exc, ext>>

SharedNext == Next \/ CallerChangesSettings

SpecShared == SharedInit /\ [][SharedNext]_vars

\* ------------------------------------------------- a mapping short of a key

\* BudgetCalculator takes any mapping: here the defaults short of one key.  The
\* six stages run in the order of MainWindow.save_all_reports.
PartialInit ==
    /\ pc = "revenue"
    /\ data \in LoadedTables
    /\ \E missing \in DOMAIN DefaultSettings :
          settings = [key \in DOMAIN DefaultSettings \ {missing} |-> DefaultSettings[key]]
    /\ sales_data = None
    /\ collections = None
    /\ purchases = None
    /\ cash_budget = None
    /\ income_stmt = None
    /\ balance_sheet = None
    /\ exc = "none"
    /\ ExtInit

SpecPartial == PartialInit /\ [][Next]_vars

\* ------------------------------------------------------ tables as objects

\* A DataFrame is an object: two names may be bound to one object, and an
\* assignment to a column or a cell changes the object for every name bound to it.
\* frames.heap holds the objects created so far, object k at position k;
\* frames.ref gives the object each name of the caller is bound to, 0 for None.

\* Objects a caller creates before it stops.
MaxObjects == 6

Deref(h, id) == IF id = 0 THEN None ELSE h[id]

\* DataFrame.copy() (deep by default): a new object holding the cells of object id.
CopyAliased(h, id) == [heap |-> h, id |-> id]
Copy(h, id) == [heap |-> Append(h, h[id]), id |-> Len(h) + 1]

\* pd.DataFrame(): a new object without columns or rows.
NewDataFrame(h) == [heap |-> Append(h, EmptyDataFrame), id |-> Len(h) + 1]

\* The stage's column and cell assignments, all of them to object a.id, which they
\* leave holding the cells of df.
Assign(a, df) == [heap |-> [a.heap EXCEPT ![a.id] = df], id |-> a.id]

\* A stage that opens with `x = first.copy()` and assigns to x only.  An exception
\* leaves the copy behind, bound to no name.
StageOnCopy(h, guard, first, r) ==
    IF guard THEN NewDataFrame(h) @@ [raised |-> "none"]
    ELSE IF r.raised # "none" THEN Copy(h, first) @@ [raised |-> r.raised]
    ELSE Assign(Copy(h, first), r.df) @@ [raised |-> "none"]

\* A stage that opens with `x = pd.DataFrame()` and assigns to x only.
StageOnNew(h, guard, r) ==
    IF guard THEN NewDataFrame(h) @@ [raised |-> "none"]
    ELSE IF r.raised # "none" THEN NewDataFrame(h) @@ [raised |-> r.raised]
    ELSE Assign(NewDataFrame(h), r.df) @@ [raised |-> "none"]

\* `name = calc.compute_...(...)`: the name is bound to the object returned.
Bind(f, name, a) ==
    [heap |-> a.heap,
     ref |-> IF a.raised = "none" THEN [f.ref EXCEPT ![name] = a.id] ELSE f.ref]

\* Input tables of every length, None and pd.DataFrame() apart.
FrameTables ==
    { t \in LoadedTables :
        \A i \in 1..Len(t.rows) : t.rows[i].sales_units = 3 /\ t.rows[i].unit_price = 2 }

FramesInit ==
    /\ EngineRest
    /\ twice = NoRuns
    /\ win = NewWindow
    /\ mgr = NewManager
    /\ dm = NewDataManager
    /\ legacy = NewGui
    /\ \/ frames = NoFrames
       \/ \E t \in {EmptyDataFrame} \cup FrameTables :
             frames = [heap |-> <<t>>, ref |-> [NoFrames.ref EXCEPT !.data = 1]]

FrameSalesRevenue ==
    /\ Len(frames.heap) < MaxObjects
    /\ LET d == Deref(frames.heap, frames.ref.data) IN
          frames' = Bind(frames, "sales_data",
                         StageOnCopy(frames.heap, IsNoneOrEmpty(d), frames.ref.data,
                                     compute_sales_revenue(d)))
    /\ UNCHANGED beside_frames

FrameCollections ==
    /\ Len(frames.heap) < MaxObjects
    /\ LET sd == Deref(frames.heap, frames.ref.sales_data) IN
          frames' = Bind(frames, "collections",
                         StageOnCopy(frames.heap, IsNoneOrEmpty(sd), frames.ref.sales_data,
                                     compute_collections(sd, settings)))
    /\ UNCHANGED beside_frames

FramePurchases ==
    /\ Len(frames.heap) < MaxObjects
    /\ LET sd == Deref(frames.heap, frames.ref.sales_data) IN
          frames' = Bind(frames, "purchases",
                         StageOnCopy(frames.heap, IsNoneOrEmpty(sd), frames.ref.sales_data,
                                     compute_purchases(sd, settings)))
    /\ UNCHANGED beside_frames

FrameCashBudget ==
    /\ Len(frames.heap) < MaxObjects
    /\ LET c == Deref(frames.heap, frames.ref.collections)
           p == Deref(frames.heap, frames.ref.purchases)
       IN  frames' = Bind(frames, "cash_budget",
                          StageOnCopy(frames.heap, IsNoneOrEmpty(c) \/ IsNoneOrEmpty(p),
                                      frames.ref.collections,
                                      compute_cash_budget(c, p, settings)))
    /\ UNCHANGED beside_frames

FrameIncomeStatement ==
    /\ Len(frames.heap) < MaxObjects
    /\ LET sd == Deref(frames.heap, frames.ref.sales_data) IN
          frames' = Bind(frames, "income_stmt",
                         StageOnNew(frames.heap, IsNoneOrEmpty(sd),
                                    compute_income_statement(sd)))
    /\ UNCHANGED beside_frames

FrameBalanceSheet ==
    /\ Len(frames.heap) < MaxObjects
    /\ LET cb == Deref(frames.heap, frames.ref.cash_budget)
           p == Deref(frames.heap, frames.ref.purchases)
           sd == Deref(frames.heap, frames.ref.sales_data)
       IN  frames' = Bind(frames, "balance_sheet",
                          StageOnNew(frames.heap,
                                     IsNoneOrEmpty(cb) \/ IsNoneOrEmpty(p) \/ IsNoneOrEmpty(sd),
                                     compute_balance_sheet(cb, p, sd, settings)))
    /\ UNCHANGED beside_frames

FramesNext ==
    \/ FrameSalesRevenue
    \/ FrameCollections
    \/ FramePurchases
    \/ FrameCashBudget
    \/ FrameIncomeStatement
    \/ FrameBalanceSheet

SpecFrames == FramesInit /\ [][FramesNext]_vars

\* ------------------------------------------------ the pipeline, run again

\* One BudgetCalculator and one input table, the six stages run in the order of
\* MainWindow.save_all_reports, then run again by the next click.  The tables are
\* objects as above.  twice.calc is the calculator's settings, twice.input the
\* table as it was loaded, twice.last the table each stage of the run under way
\* returned, as it was when returned, twice.first the same for the first run.

\* Runs of the pipeline on one calculator.
MaxRuns == 2

\* The call that binds `name`, on the objects the local names stand for.
StageCall(h, ref, s, name) ==
    LET d == Deref(h, ref.data)
        sd == Deref(h, ref.sales_data)
        c == Deref(h, ref.collections)
        p == Deref(h, ref.purchases)
        cb == Deref(h, ref.cash_budget)
    IN  CASE name = "sales_data" ->
                StageOnCopy(h, IsNoneOrEmpty(d), ref.data, compute_sales_revenue(d))
          [] name = "collections" ->
                StageOnCopy(h, IsNoneOrEmpty(sd), ref.sales_data,
                            compute_collections(sd, s))
          [] name = "purchases" ->
                StageOnCopy(h, IsNoneOrEmpty(sd), ref.sales_data,
                            compute_purchases(sd, s))
          [] name = "cash_budget" ->
                StageOnCopy(h, IsNoneOrEmpty(c) \/ IsNoneOrEmpty(p), ref.collections,
                            compute_cash_budget(c, p, s))
          [] name = "income_stmt" ->
                StageOnNew(h, IsNoneOrEmpty(sd), compute_income_statement(sd))
          [] name = "balance_sheet" ->
                StageOnNew(h, IsNoneOrEmpty(cb) \/ IsNoneOrEmpty(p) \/ IsNoneOrEmpty(sd),
                           compute_balance_sheet(cb, p, sd, s))

\* The settings a calculator of this window is built on.
TwiceSettings ==
    {DefaultSettings}
        \cup {s \in SettingsDomain :
                 /\ s.sales_collection_current = 7
                 /\ s.purchases_payment_current = 6
                 /\ s.ending_inventory_pct = 2
                 /\ s.external_financing_ratio = 1}

TwiceInit ==
    /\ EngineRest
    /\ frames = NoFrames
    /\ mgr = NewManager
    /\ dm = NewDataManager
    /\ legacy = NewGui
    /\ win = NewWindow
    /\ \E t \in LoadedTables, s \in TwiceSettings : twice = NewRun(t, s)

\* The next stage of the handler.  An exception ends the handler (its `except`
\* shows a message).  No stage assigns to self.settings.
TwiceStage ==
    /\ twice.pc \in DOMAIN Pipeline
    /\ LET name == Pipeline[twice.pc]
           a == StageCall(twice.heap, twice.ref, twice.calc, name)
           b == Bind(twice, name, a)
           out == Deref(a.heap, a.id)
       IN  twice' =
              IF a.raised # "none"
              THEN [twice EXCEPT !.heap = b.heap, !.pc = Len(Pipeline) + 1]
              ELSE [twice EXCEPT !.heap = b.heap,
                                 !.ref = b.ref,
                                 !.last[name] = out,
                                 !.first[name] = IF twice.run = 1 THEN out ELSE @,
                                 !.pc = @ + 1]
    /\ UNCHANGED beside_twice

\* The handler has returned and is started again: its local names are gone,
\* self.data and self.budget_calculator are what they were.
TwiceRunAgain ==
    /\ twice.pc = Len(Pipeline) + 1
    /\ twice.run < MaxRuns
    /\ twice' = [twice EXCEPT !.ref = [NoFrames.ref EXCEPT !.data = twice.ref.data],
                              !.last = NoOutputs,
                              !.run = @ + 1,
                              !.pc = 1]
    /\ UNCHANGED beside_twice

TwiceNext ==
    \/ TwiceStage
    \/ TwiceRunAgain

SpecTwice == TwiceInit /\ [][TwiceNext]_vars

\* ------------------------------------------------- SettingsManager calls

\* Items in a mapping handed to update_settings.
MaxItems == 2

\* Keys the callers name: two settings and a key that is no setting.
CallKeys == {"sales_collection_current", "beginning_cash", "discount_rate"}

\* Values handed to set_setting: -0.5, "2", float('nan'), "abc".
SetValues == {Float(-5), Str("2"), NaN, Str("abc")}

\* Values handed to update_settings: the int 2 and None.
UpdateValues == {PyInt(20), PyNone}

\* The mappings handed to update_settings, as their items in order.
UpdateItems ==
    UNION { { items \in [1..n -> CallKeys \X UpdateValues] :
                \A i, j \in 1..n : i # j => items[i][1] # items[j][1] } :
            n \in 0..MaxItems }

Call(name, args) == [name |-> name, args |-> args]

GetSetting ==
    /\ \E key \in CallKeys :
          mgr' = [mgr EXCEPT !.op = Call("get_setting", <<key>>),
                             !.ret = Return(TRUE, "", key, get_setting(mgr.settings, key)),
                             !.attempts = 0]
    /\ UNCHANGED beside_mgr

SetSetting ==
    /\ \E key \in CallKeys, value \in SetValues :
          LET r == set_setting(mgr.settings, key, value) IN
          mgr' = [mgr EXCEPT !.settings = r.settings,
                             !.op = Call("set_setting", <<key, value>>),
                             !.ret = Return(r.ok, "", key, PyNone),
                             !.attempts = 0]
    /\ UNCHANGED beside_mgr

\* get_all_settings: a copy of the mapping.
GetAllSettings ==
    /\ LET got == get_all_settings(mgr.settings) IN
          mgr' = [mgr EXCEPT !.op = Call("get_all_settings", <<>>),
                             !.ret = Return(TRUE, "", "", got.val) @@ [same |-> got.same],
                             !.attempts = 0]
    /\ UNCHANGED beside_mgr

\* get_settings_summary: dict != compares the values key by key.
GetSettingsSummary ==
    /\ mgr' = [mgr EXCEPT
                 !.op = Call("get_settings_summary", <<>>),
                 !.ret = Return(TRUE, "", "",
                                [total_settings |-> Cardinality(DOMAIN mgr.settings),
                                 settings |-> mgr.settings,
                                 has_custom_values |->
                                     \E key \in DOMAIN mgr.settings :
                                         ~PyEq(mgr.settings[key], default_settings[key])]),
                 !.attempts = 0]
    /\ UNCHANGED beside_mgr

UpdateSettings ==
    /\ \E items \in UpdateItems :
          LET r == update_settings(mgr.settings, items) IN
          mgr' = [mgr EXCEPT !.settings = r.settings,
                             !.op = Call("update_settings", items),
                             !.ret = Return(r.ok, "", "", PyNone),
                             !.attempts = 0]
    /\ UNCHANGED beside_mgr

ResetToDefaults ==
    /\ mgr' = [mgr EXCEPT !.settings = default_settings,
                          !.op = Call("reset_to_defaults", <<>>),
                          !.ret = Return(TRUE, "", "", PyNone),
                          !.attempts = 0]
    /\ UNCHANGED beside_mgr

ValidateSettings ==
    /\ mgr' = [mgr EXCEPT !.op = Call("validate_settings", <<>>),
                          !.ret = validate_settings(mgr.settings),
                          !.attempts = 0]
    /\ UNCHANGED beside_mgr

\* save_to_file.  open(filename, 'w') may raise (the file stays as it was) and so
\* may the write after it (the file is left cut short); either way the except
\* clause returns False.  The file operation is tried once.
SaveToFile ==
    /\ \E fault \in {"none", "open", "write"} :
          mgr' = [mgr EXCEPT
                    !.file = CASE fault = "none" ->
                                    [state |-> "json", content |-> json_dump(mgr.settings)]
                               [] fault = "open" -> @
                               [] OTHER -> [state |-> "partial", content |-> <<>>],
                    !.saved = IF fault = "none" THEN mgr.settings ELSE @,
                    !.op = Call("save_to_file", <<fault>>),
                    !.ret = Return(fault = "none", "", "", PyNone),
                    !.attempts = 1]
    /\ UNCHANGED beside_mgr

\* loaded_settings.items() of a file json.load can read: of one save_to_file
\* wrote, or of a document written by hand, held as its items in order.
FileItems(file) ==
    IF file.state = "document" THEN file.content ELSE json_load(file.content)

\* load_from_file.  No file: False.  open() or json.load may raise: False.  Else
\* the loop of lines 100-102 applies the items one after the other.
LoadFromFile ==
    /\ \E fault \in {"none", "open"} :
          LET read == mgr.file.state \in {"json", "document"} /\ fault = "none"
              r == IF read THEN update_settings(mgr.settings, FileItems(mgr.file))
                   ELSE [settings |-> mgr.settings, ok |-> FALSE]
          IN  mgr' = [mgr EXCEPT
                        !.settings = r.settings,
                        !.op = Call("load_from_file", <<fault>>),
                        !.ret = Return(r.ok, "", "", PyNone),
                        !.attempts = IF mgr.file.state = "absent" THEN 0 ELSE 1]
    /\ UNCHANGED beside_mgr

SettingsInit ==
    /\ EngineRest
    /\ twice = NoRuns
    /\ win = NewWindow
    /\ frames = NoFrames
    /\ dm = NewDataManager
    /\ legacy = NewGui
    /\ mgr = NewManager

SettingsNext ==
    \/ GetSetting
    \/ SetSetting
    \/ GetAllSettings
    \/ GetSettingsSummary
    \/ UpdateSettings
    \/ ResetToDefaults
    \/ ValidateSettings
    \/ SaveToFile
    \/ LoadFromFile

SpecSettings == SettingsInit /\ [][SettingsNext]_vars

\* A settings file written by hand, as the items json.load yields in order: one
\* with a key that is no setting before a setting, one with a setting before a
\* value that is no number.
SettingsDocuments ==
    {<<<<"discount_rate", PyInt(50)>>, <<"sales_collection_current", Float(7)>>>>,
     <<<<"sales_collection_current", Float(7)>>, <<"beginning_cash", Str("abc")>>>>}

\* A manager beside such a file.
SettingsFileInit ==
    /\ EngineRest
    /\ twice = NoRuns
    /\ win = NewWindow
    /\ frames = NoFrames
    /\ dm = NewDataManager
    /\ legacy = NewGui
    /\ \E doc \in SettingsDocuments :
          mgr = [NewManager EXCEPT !.file = [state |-> "document", content |-> doc]]

\* The caller assigns to a key of the mapping get_all_settings handed it.
CallerWritesCopy ==
    /\ mgr.op.name = "get_all_settings"
    /\ \E key \in CallKeys :
          LET written == (key :> PyInt(20)) @@ mgr.ret.val IN
          /\ written # mgr.ret.val
          /\ mgr' = [mgr EXCEPT !.ret.val = written,
                                !.settings = IF mgr.ret.same THEN written ELSE @]
    /\ UNCHANGED beside_mgr

\* The calls that read or change the settings; the file stays as it was written.
SettingsFileNext ==
    \/ GetSetting
    \/ SetSetting
    \/ GetAllSettings
    \/ UpdateSettings
    \/ ResetToDefaults
    \/ LoadFromFile
    \/ CallerWritesCopy

SpecSettingsFile == SettingsFileInit /\ [][SettingsFileNext]_vars

\* ----------------------------------------------------- DataManager calls

\* Longest CSV file.
MaxRows == 2

\* The cells a file may hold in each column: Q1, 1; 3, 0, 2.5, abc, blank; 2, -1.
QuarterTokens == {Tok("text", 0, "Q1"), Tok("int", 10, "1")}
UnitsTokens ==
    {Tok("int", 30, "3"), Tok("int", 0, "0"), Tok("real", 25, "2.5"),
     Tok("text", 0, "abc"), Tok("blank", 0, "")}
PriceTokens == {Tok("int", 20, "2"), Tok("int", -10, "-1")}

TokensOf(col) ==
    CASE col = "quarter" -> QuarterTokens
      [] col = "sales_units" -> UnitsTokens
      [] OTHER -> PriceTokens

\* The header of a file: the required columns, or all but one of them.
Headers ==
    { cols \in SUBSET {required_columns[i] : i \in DOMAIN required_columns} :
        Cardinality(cols) >= Len(required_columns) - 1 }

CsvRows(cols) ==
    { row \in [cols -> QuarterTokens \cup UnitsTokens \cup PriceTokens] :
        \A col \in cols : row[col] \in TokensOf(col) }

CsvFiles ==
    UNION { { [cols |-> cols, rows |-> rows] : rows \in [1..n -> CsvRows(cols)] } :
            cols \in Headers, n \in 0..MaxRows }

\* The reports handed to export_to_excel that are not empty.
SheetNames == {"Sales Budget"}

LoadCsv ==
    /\ \E unreadable \in BOOLEAN :
          dm' = [dm EXCEPT !.op = Call("load_csv", <<unreadable>>),
                           !.ret = load_csv(dm.file, unreadable),
                           !.attempts = 1]
    /\ UNCHANGED beside_dm

\* validate_data on None, on pd.DataFrame() and on what read_csv makes of the file.
ValidateData ==
    /\ \E df \in {CsvNone, [CsvNone EXCEPT !.none = FALSE], read_csv(dm.file)} :
          dm' = [dm EXCEPT !.op = Call("validate_data", <<df>>),
                           !.ret = validate_data(df),
                           !.attempts = 0]
    /\ UNCHANGED beside_dm

\* get_sample_data: pd.DataFrame of a dict of lists, four quarters at price 20.
SampleData ==
    LET units == <<10000, 12000, 15000, 13000>> IN
    [none |-> FALSE,
     cols |-> {"quarter", "sales_units", "unit_price"},
     dtypes |-> [quarter |-> "object", sales_units |-> "int64", unit_price |-> "int64"],
     rows |-> [i \in DOMAIN units |->
                 [quarter |-> Str(QuarterName(i)),
                  sales_units |-> PyInt(units[i] * Scale),
                  unit_price |-> PyInt(20 * Scale)]]]

GetSampleData ==
    /\ dm' = [dm EXCEPT !.op = Call("get_sample_data", <<>>),
                        !.ret = Verdict(TRUE, SampleData, "", <<>>),
                        !.attempts = 0]
    /\ UNCHANGED beside_dm

\* export_to_excel.  os.makedirs may raise, and so may the writer: on its own
\* account, or (the openpyxl engine) because every report was empty and the
\* workbook has no sheet.  The except clause returns (False, message).  Each file
\* operation is tried once.
ExportToExcel ==
    /\ \E sheets \in SUBSET SheetNames, fault \in {"none", "makedirs", "write", "no_sheet"} :
          /\ fault = "makedirs" => dm.outdir = "absent"
          /\ fault = "no_sheet" => sheets = {}
          /\ dm' = [dm EXCEPT
                      !.outdir = IF fault = "makedirs" THEN "absent" ELSE "present",
                      !.report = IF fault = "none" THEN sheets ELSE @,
                      !.op = Call("export_to_excel", <<sheets, fault>>),
                      !.ret = IF fault = "none"
                              THEN Verdict(TRUE, CsvNone, "Reports saved to", <<>>)
                              ELSE Verdict(FALSE, CsvNone, "Error saving reports", <<>>),
                      !.attempts = 1]
    /\ UNCHANGED beside_dm

DataInit ==
    /\ EngineRest
    /\ twice = NoRuns
    /\ win = NewWindow
    /\ frames = NoFrames
    /\ mgr = NewManager
    /\ legacy = NewGui
    /\ \E file \in CsvFiles : dm = [NewDataManager EXCEPT !.file = file]

DataNext ==
    \/ LoadCsv
    \/ ValidateData
    \/ GetSampleData
    \/ ExportToExcel

SpecData == DataInit /\ [][DataNext]_vars

\* ------------------------------------------------------- the sample table

\* A table of the DataManager as the engine reads it: pandas hands the stages the
\* numbers of the int64 columns and the strings of the quarter column.
EngineTable(df) ==
    DataFrame(df.cols,
              [i \in DOMAIN df.rows |->
                  [quarter |-> df.rows[i].quarter.s,
                   sales_units |-> df.rows[i].sales_units.v \div Scale,
                   unit_price |-> df.rows[i].unit_price.v \div Scale]])

\* calc.compute_...(data_manager.get_sample_data()) under every settings mapping of
\* SettingsDomain, the stages in the order of MainWindow.save_all_reports up to the
\* income statement.
SampleInit ==
    /\ pc = "revenue"
    /\ data = EngineTable(SampleData)
    /\ settings \in SettingsDomain
    /\ sales_data = None
    /\ collections = None
    /\ purchases = None
    /\ cash_budget = None
    /\ income_stmt = None
    /\ balance_sheet = None
    /\ exc = "none"
    /\ ExtInit

SampleNext ==
    \/ ComputeSalesRevenue
    \/ ComputeCollections
    \/ ComputePurchases
    \/ ComputeCashBudget
    \/ ComputeIncomeStatement

SpecSample == SampleInit /\ [][SampleNext]_vars

\* -------------------------------------------------------------- MainWindow

\* The CSV files the user picks: one or two rows of 3.0 units at price 2, and a
\* file without the unit_price column.
WindowFiles ==
    { [cols |-> cols,
       rows |-> [i \in 1..n |->
                   [col \in cols |->
                       CASE col = "quarter" -> Tok("text", 0, QuarterName(i))
                         [] col = "sales_units" -> Tok("real", 3 * Scale, "3.0")
                         [] OTHER -> Tok("int", 2 * Scale, "2")]]] :
        cols \in {{"quarter", "sales_units", "unit_price"}, {"quarter", "sales_units"}},
        n \in 1..2 }

\* The entries the user edits and what is typed into them.
WindowKeys == {"sales_collection_current", "beginning_cash"}
WindowTexts == {Str("0.70"), Str("abc")}

\* The numbers the stages read out of a settings mapping.
EngineSettings(st) == [key \in DOMAIN st |-> st[key].v]

\* The stages of save_all_reports, in its order; raised is the first exception.
RunReports(d, s) ==
    LET sd == compute_sales_revenue(d)
        c == compute_collections(sd.df, s)
        p == compute_purchases(sd.df, s)
        cb == compute_cash_budget(c.df, p.df, s)
        is == compute_income_statement(sd.df)
        bs == compute_balance_sheet(cb.df, p.df, sd.df, s)
        calls == <<sd, c, p, cb, is, bs>>
        failed == {i \in DOMAIN calls : calls[i].raised # "none"}
    IN  [raised |-> IF failed = {} THEN "none" ELSE calls[Min(failed)].raised,
         cash_budget |-> cb.df,
         income_stmt |-> is.df,
         balance_sheet |-> bs.df]

WindowInit ==
    /\ EngineRest
    /\ twice = NoRuns
    /\ frames = NoFrames
    /\ mgr = NewManager
    /\ dm = NewDataManager
    /\ legacy = NewGui
    /\ win = NewWindow

\* load_csv: the dialog cancelled changes nothing; a file load_csv accepts becomes
\* self.data.
WinLoadCsv ==
    /\ \E file \in WindowFiles, unreadable \in BOOLEAN :
          LET r == load_csv(file, unreadable) IN
          win' = [win EXCEPT !.data = IF r.ok THEN EngineTable(r.df) ELSE @,
                             !.op = "load_csv",
                             !.ok = r.ok]
    /\ UNCHANGED beside_win

\* The user types into an entry of the settings tab.
WinEditSetting ==
    /\ \E key \in WindowKeys, text \in WindowTexts :
          /\ win.setting_vars[key] # text
          /\ win' = [win EXCEPT !.setting_vars[key] = text, !.op = "edit", !.ok = TRUE]
    /\ UNCHANGED beside_win

\* save_settings: float() of every entry, a ValueError leaving everything as it
\* was; then update_settings, which assigns into the manager's mapping, and on
\* True a new calculator on get_all_settings().
WinSaveSettings ==
    /\ LET parsed == [key \in DOMAIN win.setting_vars |-> PyFloat(win.setting_vars[key])]
           keys == SelectSeq(KeyOrder, LAMBDA key : key \in DOMAIN win.setting_vars)
           new_settings == [i \in DOMAIN keys |-> <<keys[i], parsed[keys[i]].val>>]
           u == update_settings(win.sm, new_settings)
       IN  IF \E key \in DOMAIN parsed : parsed[key].raised # "none"
           THEN win' = [win EXCEPT !.op = "save_settings", !.ok = FALSE]
           ELSE win' = [win EXCEPT
                          !.sm = u.settings,
                          !.calc = IF u.ok THEN get_all_settings(u.settings)
                                   ELSE [@ EXCEPT !.val = IF win.calc.same
                                                          THEN u.settings ELSE @],
                          !.op = "save_settings",
                          !.ok = u.ok]
    /\ UNCHANGED beside_win

\* generate_cash_budget, generate_income_statement, generate_balance_sheet: a
\* warning when no file was loaded, else the stages on self.data and the table
\* put in the results pane; an exception shows a message.
WinGenerate(report) ==
    /\ LET r == RunReports(win.data, EngineSettings(win.calc.val)) IN
          win' = IF win.data.none \/ r.raised # "none"
                 THEN [win EXCEPT !.op = report, !.ok = FALSE]
                 ELSE [win EXCEPT !.shown = r[report], !.op = report, !.ok = TRUE]
    /\ UNCHANGED beside_win

WinGenerateCashBudget == WinGenerate("cash_budget")

WinGenerateIncomeStatement == WinGenerate("income_stmt")

WinGenerateBalanceSheet == WinGenerate("balance_sheet")

\* save_all_reports: the six stages, then export_to_excel, which writes a sheet
\* for every report that is not empty and returns False when the directory or the
\* workbook cannot be written.
WinSaveAllReports ==
    /\ \E fault \in {"none", "write"} :
          LET r == RunReports(win.data, EngineSettings(win.calc.val))
              sheets == {name \in {"cash_budget", "income_stmt", "balance_sheet"} :
                            ~IsEmpty(r[name])}
          IN  win' = IF win.data.none \/ r.raised # "none" \/ fault # "none"
                     THEN [win EXCEPT !.op = "save_all_reports", !.ok = FALSE]
                     ELSE [win EXCEPT !.report = sheets, !.op = "save_all_reports",
                                      !.ok = TRUE]
    /\ UNCHANGED beside_win

WindowNext ==
    \/ WinLoadCsv
    \/ WinEditSetting
    \/ WinSaveSettings
    \/ WinGenerateCashBudget
    \/ WinGenerateIncomeStatement
    \/ WinGenerateBalanceSheet
    \/ WinSaveAllReports

SpecWindow == WindowInit /\ [][WindowNext]_vars

\* ----------------------------------------------- master_budget_gui events

\* What the user types in a Working-capital turnover field, and the number
\* float() reads from it.
WctTexts == {"0", "2.0", "0.5", "abc"}
LegacyNumerals == ("0" :> 0) @@ ("2.0" :> 20) @@ ("0.5" :> 5)

\* update_policy_from_inputs, update_policy_from_settings: the fields are
\* converted and assigned one after the other, the turnover last; text float()
\* refuses ends the loop with a popup.  The other six fields hold their defaults.
UpdatePolicies(policies, text) ==
    LET six == [f \in DOMAIN policies |->
                   IF f = "Working-capital turnover ratio" THEN policies[f]
                   ELSE DEFAULT_POLICIES[f]]
    IN  IF text \in DOMAIN LegacyNumerals
        THEN ("Working-capital turnover ratio" :> LegacyNumerals[text]) @@ six
        ELSE six

\* A row of a CSV file that has the three columns.
LegacyRow(q, units, price) == [quarter |-> q, sales_units |-> units, unit_price |-> price]

\* The files the user loads: a whole table, the first two quarters only, a table
\* with a blank cell, a table with a cell of text.
LegacyFiles ==
    { [i \in DOMAIN quarters |->
          LegacyRow(quarters[i], Num(IF i % 2 = 1 THEN 3 ELSE 1), Num(2))],
      <<LegacyRow("Q1", Num(3), Num(2)), LegacyRow("Q2", Num(1), Num(2))>>,
      [i \in DOMAIN quarters |->
          LegacyRow(quarters[i], IF i = 2 THEN Blank ELSE Num(IF i = 4 THEN 1 ELSE 3), Num(2))],
      [i \in DOMAIN quarters |->
          LegacyRow(quarters[i], IF i = 2 THEN Text ELSE Num(1), Num(2))] }

\* df.head(4), astype(float) on the two numeric columns, inputs_df.update(df):
\* text in a numeric column raises ValueError before anything is written; update
\* writes the cells of df that are not NaN over the rows of the same index and
\* leaves every other cell.  The quarter column of the files above has no blank.
load_inputs_update(inputs_df, file) ==
    LET df == SubSeq(file, 1, IF Len(file) < Len(quarters) THEN Len(file)
                              ELSE Len(quarters))
        Over(i, col) == IF i \in DOMAIN df /\ df[i][col].k = "num" THEN df[i][col].v
                        ELSE inputs_df[i][col]
    IN  IF \E i \in DOMAIN df : df[i].sales_units.k = "text" \/ df[i].unit_price.k = "text"
        THEN [raised |-> "ValueError", df |-> inputs_df]
        ELSE [raised |-> "none",
              df |-> [i \in DOMAIN inputs_df |->
                         [quarter |-> IF i \in DOMAIN df THEN df[i].quarter
                                      ELSE inputs_df[i].quarter,
                          sales_units |-> Over(i, "sales_units"),
                          unit_price |-> Over(i, "unit_price")]]]

\* update_table_from_df: the element shows the rows of inputs_df.
update_table_from_df(df) ==
    [i \in DOMAIN df |-> TableRow(Num(df[i].sales_units), Num(df[i].unit_price))]

\* event == '-LOAD-CSV-': a file that is missing, unreadable or lacks a column
\* leaves inputs_df alone and shows a popup; the ValueError of astype is caught
\* nowhere.
GuiLoadCsv ==
    /\ legacy.exc = "none"
    /\ \/ \E file \in LegacyFiles :
             LET r == load_inputs_update(legacy.inputs_df, file)
             IN  legacy' = IF r.raised # "none" THEN [legacy EXCEPT !.exc = r.raised]
                           ELSE [legacy EXCEPT !.inputs_df = r.df,
                                               !.table = update_table_from_df(r.df)]
       \/ legacy' = legacy
    /\ UNCHANGED beside_legacy

\* float(cell) if cell != '' else 0, for a cell float() accepts.
CellFloat(cell) == IF cell.k = "num" THEN cell.v ELSE 0

\* update_df_from_table: row after row, sales_units and then unit_price are
\* converted and written; the first exception (row[1] of a row number, text
\* float() refuses) ends the loop and is swallowed, what was written before it
\* stays.  values has no more rows than inputs_df.
update_df_from_table(inputs_df, values) ==
    LET n == Len(values)
        Stops(i) == \/ values[i].k = "index"
                    \/ values[i].sales_units.k = "text"
                    \/ values[i].unit_price.k = "text"
        first == CHOOSE i \in 1..(n + 1) :
                    /\ i = n + 1 \/ Stops(i)
                    /\ \A j \in 1..(i - 1) : ~Stops(j)
    IN  [i \in DOMAIN inputs_df |->
            IF i < first
            THEN [inputs_df[i] EXCEPT !.sales_units = CellFloat(values[i].sales_units),
                                      !.unit_price = CellFloat(values[i].unit_price)]
            ELSE IF i = first /\ i <= n /\ values[i].k = "row"
                      /\ values[i].sales_units.k # "text"
            THEN [inputs_df[i] EXCEPT !.sales_units = CellFloat(values[i].sales_units)]
            ELSE inputs_df[i]]

\* What values['-INPUT-TABLE-'] holds at the event: the numbers of the selected
\* rows, none, one or two of them, or the rows as typed, the second with text in
\* its sales_units.
TableValues ==
    { <<>>, <<Selected>>, <<Selected, Selected>>,
      <<TableRow(Num(3), Num(2)), TableRow(Text, Num(2))>> }

\* event == '-INPUT-TABLE-'
GuiTableEdit ==
    /\ legacy.exc = "none"
    /\ \E values \in TableValues :
          legacy' = [legacy EXCEPT !.inputs_df = update_df_from_table(@, values)]
    /\ UNCHANGED beside_legacy

\* event.startswith('-SET-')
GuiSettings ==
    /\ legacy.exc = "none"
    /\ \E text \in WctTexts :
          legacy' = [legacy EXCEPT !.policies = UpdatePolicies(@, text)]
    /\ UNCHANGED beside_legacy

\* event == '-GEN-CASH-': inputs_df takes the values the element shows first.
GuiGenCash ==
    /\ legacy.exc = "none"
    /\ \E text \in WctTexts :
          LET inputs_df == update_df_from_table(legacy.inputs_df, legacy.table)
              policies == UpdatePolicies(legacy.policies, text)
              sales_df == legacy_compute_sales(inputs_df)
              inflow == legacy_compute_collections(sales_df, policies)
              p == legacy_compute_purchases(inputs_df, policies)
              outflow == legacy_compute_disbursements(p.purchases_units, policies)
              cash == legacy_compute_cash_budget(inputs_df, inflow, outflow)
          IN  legacy' = [legacy EXCEPT
                           !.inputs_df = inputs_df,
                           !.policies = policies,
                           !.cash_budget_df =
                               Table([i \in DOMAIN quarters |->
                                         ("Quarter" :> quarters[i])
                                             @@ ("Sales Revenue" :> sales_df[i]["Sales Revenue"])
                                             @@ ("Collections" :> inflow[i])
                                             @@ ("Purchases Units" :> p.purchases_units[i])
                                             @@ ("Disbursements" :> outflow[i])
                                             @@ ("Ending Cash" :> cash[i])])]
    /\ UNCHANGED beside_legacy

\* event == '-GEN-INC-': a popup when no cash budget was generated.
GuiGenInc ==
    /\ legacy.exc = "none"
    /\ IF legacy.cash_budget_df.none THEN legacy' = legacy
       ELSE LET sales_df == legacy_compute_sales(legacy.inputs_df)
                p == legacy_compute_purchases(legacy.inputs_df, legacy.policies)
            IN  legacy' = [legacy EXCEPT
                             !.income_statement_df =
                                 Table(legacy_compute_income_statement(sales_df,
                                                                       p.purchases_units))]
    /\ UNCHANGED beside_legacy

\* event == '-GEN-BAL-': a popup when no cash budget was generated; an exception
\* of compute_balance_sheet is caught nowhere.
GuiGenBal ==
    /\ legacy.exc = "none"
    /\ IF legacy.cash_budget_df.none THEN legacy' = legacy
       ELSE LET sales_df == legacy_compute_sales(legacy.inputs_df)
                p == legacy_compute_purchases(legacy.inputs_df, legacy.policies)
                ending == [i \in DOMAIN legacy.cash_budget_df.rows |->
                              legacy.cash_budget_df.rows[i]["Ending Cash"]]
                r == legacy_compute_balance_sheet(ending, p.desired_ending_inv, sales_df,
                                                  legacy.policies)
            IN  IF r.raised # "none" THEN legacy' = [legacy EXCEPT !.exc = r.raised]
                ELSE legacy' = [legacy EXCEPT !.balance_sheet_df = Table(r.df)]
    /\ UNCHANGED beside_legacy

\* The files export_reports writes, in the order it writes them.
export_reports ==
    <<"outputs/cash_budget.xlsx", "outputs/income_statement.xlsx",
      "outputs/balance_sheet.xlsx">>

\* What leaves export_reports when os.makedirs or a to_excel fails: an OSError of
\* the file system at any of them, an ImportError of the xlsxwriter engine at the
\* first write.
ExportFaults(written) == IF written = 0 THEN {"OSError", "ImportError"} ELSE {"OSError"}

\* event == '-SAVE-ALL-': export_reports writes its files one after the other and
\* has no try; what os.makedirs or a to_excel raises leaves the event loop, with
\* the files written before it in the directory.
GuiSaveAll ==
    /\ legacy.exc = "none"
    /\ IF legacy.cash_budget_df.none \/ legacy.income_statement_df.none
             \/ legacy.balance_sheet_df.none
       THEN legacy' = legacy
       ELSE \E written \in 0..Len(export_reports) :
               LET files == {export_reports[i] : i \in 1..written}
               IN  IF written = Len(export_reports)
                   THEN legacy' = [legacy EXCEPT !.outputs = @ \cup files]
                   ELSE \E fault \in ExportFaults(written) :
                           legacy' = [legacy EXCEPT !.outputs = @ \cup files,
                                                   !.exc = fault]
    /\ UNCHANGED beside_legacy

\* A language of the menu: the local lang is assigned, the window is closed and
\* build_gui(), which takes no argument, starts afresh; the files written stay.
GuiLanguageEvent(event) ==
    /\ legacy.exc = "none"
    /\ LET lang == IF event = "English" THEN "en" ELSE "ar"
       IN  legacy' = [NewGui EXCEPT !.outputs = legacy.outputs]
    /\ UNCHANGED beside_legacy

GuiSwitchLanguage == \E event \in {"English", "Arabic"} : GuiLanguageEvent(event)

LegacyInit ==
    /\ EngineRest
    /\ twice = NoRuns
    /\ win = NewWindow
    /\ frames = NoFrames
    /\ mgr = NewManager
    /\ dm = NewDataManager
    /\ legacy = NewGui

LegacyNext ==
    \/ GuiLoadCsv
    \/ GuiTableEdit
    \/ GuiSettings
    \/ GuiGenCash
    \/ GuiGenInc
    \/ GuiGenBal
    \/ GuiSaveAll
    \/ GuiSwitchLanguage

SpecLegacy == LegacyInit /\ [][LegacyNext]_vars

\* ------------------------------------------------------------------ claims

\* A stage returned this table with rows in it.
Returned(df) == ~df.none /\ Len(df.rows) > 0

Rows(df) == 1..Len(df.rows)

\* C1: in every row of the balance sheet external_financing is
\* total_assets * external_financing_ratio, equity is total_assets minus
\* external_financing, and liabilities_equity equals total_assets.
C1_BalanceIdentity ==
    Returned(balance_sheet) =>
        \A i \in Rows(balance_sheet) :
            LET row == balance_sheet.rows[i] IN
            /\ row.external_financing = row.total_assets * settings.external_financing_ratio
            /\ row.equity = row.total_assets * Scale - row.external_financing
            /\ row.liabilities_equity = row.total_assets * Scale

C1_Witness ==
    /\ Returned(balance_sheet)
    /\ Len(balance_sheet.rows) >= 2
    /\ \A i \in Rows(balance_sheet) :
        /\ balance_sheet.rows[i].external_financing # 0
        /\ balance_sheet.rows[i].equity # balance_sheet.rows[i].total_assets * Scale

\* C2: ending_cash of the first row is the beginning_cash setting plus collections
\* minus disbursements of that row; ending_cash of every later row is the previous
\* row's ending_cash plus the row's collections minus its disbursements.
C2_EndingCashRecurrence ==
    Returned(cash_budget) =>
        \A i \in Rows(cash_budget) :
            LET row == cash_budget.rows[i] IN
            /\ row.collections = collections.rows[i].collections
            /\ row.ending_cash =
                  (IF i = 1 THEN settings.beginning_cash * Scale * Scale
                   ELSE cash_budget.rows[i-1].ending_cash)
                  + row.collections * Scale * Scale - row.disbursements

C2_Witness ==
    /\ Returned(cash_budget)
    /\ Len(cash_budget.rows) >= 3
    /\ cash_budget.rows[1].ending_cash # settings.beginning_cash * Scale * Scale
    /\ cash_budget.rows[3].ending_cash # cash_budget.rows[2].ending_cash
    /\ cash_budget.rows[2].ending_cash # cash_budget.rows[1].ending_cash

\* C3: desired_ending_inventory of every row before the last is
\* ending_inventory_pct times the next row's sales_units, and that of the last row is
\* ending_inventory_pct times the last row's own sales_units.
C3_LastPeriodOwnSales ==
    Returned(purchases) =>
        \A i \in Rows(purchases) :
            purchases.rows[i].desired_ending_inventory =
                settings.ending_inventory_pct
                * (IF i < Len(purchases.rows) THEN purchases.rows[i+1].sales_units
                   ELSE purchases.rows[i].sales_units)

\* C4: collections of row i is its sales_revenue times sales_collection_current,
\* plus the previous row's sales_revenue times sales_collection_next for every row
\* but the first, which gets nothing from a predecessor.
C4_Collections ==
    Returned(collections) =>
        /\ Len(collections.rows) = Len(sales_data.rows)
        /\ \A i \in Rows(collections) :
            collections.rows[i].collections =
                sales_data.rows[i].sales_revenue * settings.sales_collection_current
                + (IF i > 1
                   THEN sales_data.rows[i-1].sales_revenue * settings.sales_collection_next
                   ELSE 0)

C4_Witness ==
    /\ Returned(collections)
    /\ Len(collections.rows) >= 2
    /\ collections.rows[1].collections # collections.rows[2].collections
    /\ collections.rows[Len(collections.rows)].sales_revenue # 0

\* C5: disbursements of row i is purchases_cost of row i times
\* purchases_payment_current, plus purchases_cost of the previous row times
\* purchases_payment_next for every row but the first; purchases_cost being
\* purchases_units * 0.6 * unit_price.
C5_Disbursements ==
    Returned(cash_budget) =>
        \A i \in Rows(cash_budget) :
            /\ purchases.rows[i].purchases_cost =
                  purchases.rows[i].purchases_units * CostRatio
                  * purchases.rows[i].unit_price
            /\ cash_budget.rows[i].disbursements =
                  purchases.rows[i].purchases_cost * settings.purchases_payment_current
                  + (IF i > 1
                     THEN purchases.rows[i-1].purchases_cost
                          * settings.purchases_payment_next
                     ELSE 0)

C5_Witness ==
    /\ Returned(cash_budget)
    /\ Len(cash_budget.rows) >= 2
    /\ purchases.rows[1].purchases_cost # 0
    /\ cash_budget.rows[2].disbursements #
          purchases.rows[2].purchases_cost * settings.purchases_payment_current

\* C6: beginning_inventory of row i is desired_ending_inventory of the previous row
\* (0 for the first row), purchases_units is sales_units + desired_ending_inventory
\* - beginning_inventory, negative or not, and purchases_cost is purchases_units
\* times 0.6 * unit_price.
C6_PurchasesSchedule ==
    Returned(purchases) =>
        \A i \in Rows(purchases) :
            LET row == purchases.rows[i] IN
            /\ row.beginning_inventory =
                  (IF i > 1 THEN purchases.rows[i-1].desired_ending_inventory ELSE 0)
            /\ row.purchases_units =
                  row.sales_units * Scale + row.desired_ending_inventory
                  - row.beginning_inventory
            /\ row.purchases_cost = row.purchases_units * (row.unit_price * CostRatio)

C6_Witness ==
    /\ Returned(purchases)
    /\ \E i \in Rows(purchases) :
        /\ purchases.rows[i].purchases_units < 0
        /\ purchases.rows[i].purchases_cost < 0
        /\ purchases.rows[i].beginning_inventory > 0

\* C7: receivables of the first row is sales_revenue * (1 - sales_collection_current);
\* receivables of every later row is the previous receivables plus the row's
\* sales_revenue * (1 - sales_collection_current) minus the previous row's
\* sales_revenue * sales_collection_next.  A single-period table has
\* beginning_inventory 0 in its purchases row.
C7_Receivables ==
    /\ Returned(balance_sheet) =>
        \A i \in Rows(balance_sheet) :
            balance_sheet.rows[i].receivables =
                IF i = 1
                THEN sales_data.rows[1].sales_revenue
                     * (Scale - settings.sales_collection_current)
                ELSE balance_sheet.rows[i-1].receivables
                     + sales_data.rows[i].sales_revenue
                       * (Scale - settings.sales_collection_current)
                     - sales_data.rows[i-1].sales_revenue
                       * settings.sales_collection_next
    /\ (Returned(purchases) /\ Len(purchases.rows) = 1) =>
        purchases.rows[1].beginning_inventory = 0

C7_Witness ==
    /\ Returned(balance_sheet)
    /\ Len(balance_sheet.rows) >= 3
    /\ balance_sheet.rows[2].receivables # balance_sheet.rows[1].receivables
    /\ balance_sheet.rows[3].receivables #
          balance_sheet.rows[2].receivables
          + sales_data.rows[3].sales_revenue * (Scale - settings.sales_collection_current)

\* C8: in every row of the balance sheet cash is ending_cash of the cash budget,
\* inventory is desired_ending_inventory times 0.6 * unit_price, and total_assets is
\* cash + inventory + receivables.
C8_Assets ==
    Returned(balance_sheet) =>
        \A i \in Rows(balance_sheet) :
            LET row == balance_sheet.rows[i] IN
            /\ row.cash = cash_budget.rows[i].ending_cash
            /\ row.inventory =
                  purchases.rows[i].desired_ending_inventory
                  * (CostRatio * sales_data.rows[i].unit_price)
            /\ row.total_assets =
                  row.cash + row.inventory * Scale + row.receivables * Scale * Scale

C8_Witness ==
    /\ Returned(balance_sheet)
    /\ \E i \in Rows(balance_sheet) :
        /\ balance_sheet.rows[i].inventory # 0
        /\ balance_sheet.rows[i].receivables # 0
        /\ balance_sheet.rows[i].cash < 0

\* C9: the revenue stage on a table with rows returns as many rows in the same
\* order, each with sales_revenue = sales_units * unit_price.
C9_SalesRevenue ==
    (~IsNoneOrEmpty(data) /\ ~sales_data.none) =>
        /\ Len(sales_data.rows) = Len(data.rows)
        /\ \A i \in Rows(data) :
            LET row == sales_data.rows[i] IN
            /\ row.quarter = data.rows[i].quarter
            /\ row.sales_units = data.rows[i].sales_units
            /\ row.unit_price = data.rows[i].unit_price
            /\ row.sales_revenue = data.rows[i].sales_units * data.rows[i].unit_price

C9_Witness ==
    /\ Returned(sales_data)
    /\ Len(sales_data.rows) >= 2
    /\ sales_data.rows[1].sales_revenue # sales_data.rows[2].sales_revenue
    /\ sales_data.rows[1].sales_units > 1
    /\ sales_data.rows[1].unit_price > 1

\* Stage A, called on an input for which its guard holds, returns pd.DataFrame()
\* and raises nothing.
EmptyIn(A, guard, result) == (A /\ guard) => (result = EmptyDataFrame /\ exc' = "none")

\* C10: each of the six stages called with a None or empty input table returns an
\* empty table and raises nothing; a run of the six stages on an empty table ends
\* with every result empty.
C10_EmptyInEmptyOut ==
    /\ [][/\ EmptyIn(ComputeSalesRevenue, IsNoneOrEmpty(data), sales_data')
          /\ EmptyIn(ComputeCollections, IsNoneOrEmpty(sales_data), collections')
          /\ EmptyIn(ComputePurchases, IsNoneOrEmpty(sales_data), purchases')
          /\ EmptyIn(ComputeCashBudget,
                     IsNoneOrEmpty(collections) \/ IsNoneOrEmpty(purchases),
                     cash_budget')
          /\ EmptyIn(ComputeIncomeStatement, IsNoneOrEmpty(sales_data), income_stmt')
          /\ EmptyIn(ComputeBalanceSheet,
                     IsNoneOrEmpty(cash_budget) \/ IsNoneOrEmpty(purchases)
                         \/ IsNoneOrEmpty(sales_data),
                     balance_sheet')]_vars
    /\ []((pc = "done" /\ IsNoneOrEmpty(data)) =>
            /\ exc = "none"
            /\ \A df \in {sales_data, collections, purchases, cash_budget,
                          income_stmt, balance_sheet} : df = EmptyDataFrame)

\* Direct calls: the stages that read sales_data were called while it was still
\* None, and every result is the empty table.
C10_Witness ==
    /\ pc = "api"
    /\ sales_data = None
    /\ exc = "none"
    /\ \A df \in {collections, purchases, cash_budget, income_stmt, balance_sheet} :
        df = EmptyDataFrame

\* C11 as stated: a stage called with a None or empty input table reports an error.
C11_FailsFast ==
    [][/\ (ComputeSalesRevenue /\ IsNoneOrEmpty(data)) => exc' # "none"
       /\ (ComputeCollections /\ IsNoneOrEmpty(sales_data)) => exc' # "none"
       /\ (ComputePurchases /\ IsNoneOrEmpty(sales_data)) => exc' # "none"
       /\ (ComputeCashBudget /\ (IsNoneOrEmpty(collections) \/ IsNoneOrEmpty(purchases)))
            => exc' # "none"
       /\ (ComputeIncomeStatement /\ IsNoneOrEmpty(sales_data)) => exc' # "none"
       /\ (ComputeBalanceSheet
             /\ (IsNoneOrEmpty(cash_budget) \/ IsNoneOrEmpty(purchases)
                    \/ IsNoneOrEmpty(sales_data)))
            => exc' # "none"]_vars

\* The result variables a stage has been called for.
Called == {df \in {sales_data, collections, purchases, cash_budget, income_stmt,
                   balance_sheet} : ~df.none}

\* C11, amended: no stage reports an error for a None or empty input table.  With
\* complete settings no call ever ends in an exception, and while the input table is
\* None or empty every result a stage has returned is the table without rows or
\* columns, never a default with rows in it.
C11_NoErrorOnEmpty ==
    /\ exc = "none"
    /\ pc # "failed"
    /\ IsNoneOrEmpty(data) => \A df \in Called : df = EmptyDataFrame
    /\ \A df \in Called : IsEmpty(df) => df = EmptyDataFrame

\* A run of the six stages on a table with its columns and no rows has ended.
C11_Witness ==
    /\ pc = "done"
    /\ ~data.none
    /\ data.cols = InputCols
    /\ Len(data.rows) = 0
    /\ Cardinality(Called) = 1
    /\ exc = "none"

\* C12: a run computes every period with the settings that held when it started,
\* whatever the caller writes to the mapping meanwhile: at the end of the run the
\* tables are those the run's first settings give.
C12_SettingsSnapshot ==
    pc = "done" =>
        LET c == compute_collections(sales_data, run_settings).df
            p == compute_purchases(sales_data, run_settings).df
            cb == compute_cash_budget(c, p, run_settings).df
        IN  /\ collections = c
            /\ purchases = p
            /\ cash_budget = cb
            /\ balance_sheet = compute_balance_sheet(cb, p, sales_data, run_settings).df

\* C13: a stage changes no table it receives and returns a new table.  In every
\* step of a caller, each DataFrame object that existed before the call holds the
\* same columns and cells after it, one object more exists, and the name the
\* result is bound to stands for an object that did not exist before.
C13_InputsUntouched ==
    [][ /\ \A k \in 1..Len(frames.heap) : frames'.heap[k] = frames.heap[k]
        /\ Len(frames'.heap) > Len(frames.heap)
        /\ \A n \in DOMAIN frames.ref :
              frames'.ref[n] # frames.ref[n] => frames'.ref[n] > Len(frames.heap)
        /\ \E n \in DOMAIN frames.ref : frames'.ref[n] # frames.ref[n] ]_vars

\* The whole pipeline ran on a table of MaxPeriods rows, down to a balance sheet
\* with as many rows, and the input table still has its three columns.
C13_Witness ==
    /\ frames.ref.data = 1
    /\ frames.heap[1].cols = InputCols
    /\ Len(frames.heap[1].rows) = MaxPeriods
    /\ frames.ref.balance_sheet # 0
    /\ Len(Deref(frames.heap, frames.ref.balance_sheet).rows) = MaxPeriods
    /\ "equity" \in Deref(frames.heap, frames.ref.balance_sheet).cols


\* Same number, or NaN on both sides.
SameValue(x, y) == IF x.k = "nan" \/ y.k = "nan" THEN x.k = y.k ELSE x.v = y.v

\* C14: save_to_file then load_from_file on the same file reproduces the value of
\* every settings key.  After a load_from_file that returned True, each key holds
\* the value it held when the last successful save_to_file wrote the file,
\* whatever was set before the save and between the save and the load.
C14_SaveLoadRoundTrip ==
    (mgr.op.name = "load_from_file" /\ mgr.ret.ok) =>
        /\ DOMAIN mgr.settings = DOMAIN mgr.saved
        /\ \A key \in DOMAIN mgr.saved : SameValue(mgr.settings[key], mgr.saved[key])

\* A load gave back a saved -0.5 and NaN after both had been overwritten.
C14_Witness ==
    /\ mgr.op.name = "load_from_file"
    /\ mgr.ret.ok
    /\ mgr.settings["sales_collection_current"] = Float(-5)
    /\ mgr.settings["beginning_cash"] = NaN
    /\ mgr.attempts = 1


\* The mapping with the default in the place of each key it lacks.
WithDefaults(s) ==
    [key \in DOMAIN DefaultSettings |->
        IF key \in DOMAIN s THEN s[key] ELSE DefaultSettings[key]]

\* C15: with a settings key missing from the mapping the stages raise nothing and
\* compute with the documented default in its place: no stage ends in an
\* exception, and a finished run holds the tables the defaults give.
C15_MissingKeyDefault ==
    /\ exc = "none"
    /\ pc # "failed"
    /\ pc = "done" =>
          LET s == WithDefaults(settings)
              c == compute_collections(sales_data, s).df
              p == compute_purchases(sales_data, s).df
              cb == compute_cash_budget(c, p, s).df
          IN  /\ collections = c
              /\ purchases = p
              /\ cash_budget = cb
              /\ balance_sheet = compute_balance_sheet(cb, p, sales_data, s).df


\* A file the claim calls valid: the three required columns, and in every row a
\* number above 0 for sales_units and for unit_price.
ValidFile(file) ==
    /\ \A i \in DOMAIN required_columns : required_columns[i] \in file.cols
    /\ \A i \in DOMAIN file.rows :
          \A col \in {"sales_units", "unit_price"} :
             file.rows[i][col].lit \in {"int", "real"} /\ file.rows[i][col].v > 0

\* A rejection names the columns the file lacks, or else the constraint.
NamesCause(file, ret) ==
    LET lacking == {required_columns[i] : i \in DOMAIN required_columns} \ file.cols IN
    IF lacking # {} THEN lacking = {ret.cols[i] : i \in DOMAIN ret.cols}
    ELSE ret.kind \in {"Sales units and unit price must be positive numbers",
                       "must contain numeric values"}

\* C16: load_csv and validate_data reject a table exactly when a required column
\* is missing or a sales_units or unit_price value is no number or is <= 0; a
\* rejection names the missing columns or the constraint and returns no table.
C16_ValidationVerdict ==
    /\ (dm.op.name = "load_csv" /\ ~dm.op.args[1]) =>
          /\ dm.ret.ok <=> ValidFile(dm.file)
          /\ ~dm.ret.ok => dm.ret.df = CsvNone /\ NamesCause(dm.file, dm.ret)
    /\ (dm.op.name = "validate_data" /\ dm.op.args[1] = read_csv(dm.file)) =>
          /\ dm.ret.ok <=> ValidFile(dm.file)
          /\ ~dm.ret.ok => dm.ret.df = CsvNone /\ NamesCause(dm.file, dm.ret)


\* The settings out of range: a value below 0, or a ratio above 1.
OutOfRange(st) ==
    {key \in DOMAIN st : PyLt(st[key], 0)}
        \cup {percentage_settings[i] : i \in {j \in DOMAIN percentage_settings :
                                                PyGt(st[percentage_settings[j]], Scale)}}

\* The number a caller's value stands for.
Meant(value) ==
    CASE value.k = "str" /\ value.s \in DOMAIN Numerals -> Float(Numerals[value.s])
      [] value.k = "int" -> Float(value.v)
      [] OTHER -> value

\* The call recorded in op supplied the value new for the setting key.
Supplied(op, file, key, new) ==
    CASE op.name = "set_setting" -> op.args[1] = key /\ SameValue(new, Meant(op.args[2]))
      [] op.name = "update_settings" ->
            \E j \in DOMAIN op.args : op.args[j][1] = key /\ SameValue(new, Meant(op.args[j][2]))
      [] op.name = "load_from_file" ->
            /\ file.state = "json"
            /\ SameValue(new, IF file.content[key].lit = "NaN" THEN NaN
                              ELSE Float(file.content[key].v))
      [] op.name = "reset_to_defaults" -> new = default_settings[key]
      [] OTHER -> FALSE

\* C17: out-of-range settings are reported and never coerced.  validate_settings
\* on settings holding a ratio above 1 or a negative value returns failure and its
\* message names one of the offending settings; and a call changes a setting only
\* to the very value it was given (by the caller, by the file, by the defaults),
\* out of range or not.
C17_ReportedNotCoerced ==
    /\ [](mgr.op.name = "validate_settings" /\ OutOfRange(mgr.settings) # {}
            => ~mgr.ret.ok /\ mgr.ret.key \in OutOfRange(mgr.settings))
    /\ [][ \A key \in DOMAIN mgr.settings :
              mgr'.settings[key] # mgr.settings[key]
                  => Supplied(mgr'.op, mgr.file, key, mgr'.settings[key]) ]_vars

\* validate_settings refused settings whose only fault is a ratio of 2.0, which
\* set_setting had stored as given.
C17_Witness ==
    /\ mgr.op.name = "validate_settings"
    /\ ~mgr.ret.ok
    /\ mgr.ret.kind = "must be between 0 and 1"
    /\ mgr.ret.key = "sales_collection_current"
    /\ mgr.settings["sales_collection_current"] = Float(20)
    /\ OutOfRange(mgr.settings) = {"sales_collection_current"}

\* C18 as stated: beginning_cash may have any sign.  Settings whose beginning_cash
\* is negative and whose other values are in range pass validate_settings.
C18_NegativeCashValid ==
    (/\ mgr.op.name = "validate_settings"
     /\ PyLt(mgr.settings["beginning_cash"], 0)
     /\ OutOfRange(mgr.settings) = {"beginning_cash"})
        => mgr.ret.ok

\* C20 as stated: a save_to_file or load_from_file that fails returns False after
\* it has tried its file operation a second time.
C20_RetriedOnce ==
    (mgr.op.name \in {"save_to_file", "load_from_file"} /\ ~mgr.ret.ok)
        => mgr.attempts = 2


\* C19: a working-capital turnover of 0 raises no division error and gives a
\* working capital of 0; any other turnover gives assets / turnover.  No
\* ZeroDivisionError ever leaves the event loop, and the balance sheet '-GEN-BAL-'
\* produces holds Working Capital = 0 when the turnover policy is 0 and
\* Working Capital * turnover = Assets otherwise.
C19_ZeroTurnover ==
    /\ [](legacy.exc # "ZeroDivisionError")
    /\ [][ (legacy'.balance_sheet_df # legacy.balance_sheet_df
              /\ ~legacy'.balance_sheet_df.none) =>
             LET row == legacy'.balance_sheet_df.rows[1]
                 wct == legacy.policies["Working-capital turnover ratio"]
                 wc == row["Working Capital"]
             IN  /\ wc.den # 0
                 /\ IF wct = 0 THEN wc.num = 0
                    ELSE wc.num * wct = row["Assets"] * Scale * wc.den ]_vars

\* A balance sheet with assets and no working capital, made under turnover 0.
C19_Witness ==
    /\ ~legacy.balance_sheet_df.none
    /\ legacy.policies["Working-capital turnover ratio"] = 0
    /\ legacy.balance_sheet_df.rows[1]["Assets"] # 0
    /\ legacy.balance_sheet_df.rows[1]["Working Capital"].num = 0
    /\ legacy.exc = "none"

\* C21: compute_income_statement returns one row per period, in the order of the
\* periods, with total_revenue = sales_units * unit_price, total_cogs =
\* sales_units * unit_price * 0.6 and gross_profit = total_revenue - total_cogs.
C21_IncomeStatement ==
    Returned(income_stmt) =>
        /\ Len(income_stmt.rows) = Len(sales_data.rows)
        /\ income_stmt.cols = {"quarter", "total_revenue", "total_cogs", "gross_profit"}
        /\ \A i \in Rows(income_stmt) :
            LET row == income_stmt.rows[i]
                units == sales_data.rows[i].sales_units
                price == sales_data.rows[i].unit_price
            IN  /\ row.quarter = sales_data.rows[i].quarter
                /\ row.total_revenue = units * price
                /\ row.total_cogs = units * price * CostRatio
                /\ row.gross_profit = row.total_revenue * Scale - row.total_cogs

\* An income statement of three periods whose rows differ and whose profit is
\* less than the revenue.
C21_Witness ==
    /\ Returned(income_stmt)
    /\ Len(income_stmt.rows) = MaxPeriods
    /\ income_stmt.rows[1].total_revenue # income_stmt.rows[2].total_revenue
    /\ \A i \in Rows(income_stmt) :
        /\ income_stmt.rows[i].total_cogs > 0
        /\ income_stmt.rows[i].gross_profit < income_stmt.rows[i].total_revenue * Scale
        /\ income_stmt.rows[i].gross_profit > 0

\* C22: running the six stages twice on the same BudgetCalculator with the same
\* input table and settings gives identical outputs.  The first run leaves the
\* input table as it was loaded, and every table a stage of a later run returns is
\* the table that stage returned in the first run.
C22_SecondRunIdentical ==
    /\ twice.run >= 1 => Deref(twice.heap, twice.ref.data) = twice.input
    /\ twice.run > 1 =>
          \A name \in DOMAIN twice.last :
              ~twice.last[name].none => twice.last[name] = twice.first[name]

\* A second run that has returned its six tables, with rows in them.
C22_Witness ==
    /\ twice.run = 2
    /\ twice.pc = Len(Pipeline) + 1
    /\ \A name \in DOMAIN twice.last :
          /\ Returned(twice.last[name])
          /\ Len(twice.last[name].rows) >= 2
          /\ twice.last[name] = twice.first[name]
    /\ twice.last["cash_budget"].rows[2].ending_cash
          # twice.last["cash_budget"].rows[1].ending_cash

\* The column col of a table, as a list.
Column(df, col) == [i \in DOMAIN df.rows |-> df.rows[i][col]]

\* C23: for the periods (Q1, 10000, 20), (Q2, 12000, 20), (Q3, 15000, 20),
\* (Q4, 13000, 20) and collection ratios 0.7 / 0.3, sales_revenue is
\* [200000, 240000, 300000, 260000], collections[0] is 140000 and collections[1]
\* is 228000; compute_collections of master_budget_gui.py under DEFAULT_POLICIES
\* gives the same two numbers.
C23_Scenario ==
    /\ (/\ Column(data, "sales_units") = <<10000, 12000, 15000, 13000>>
        /\ Column(data, "unit_price") = <<20, 20, 20, 20>>
        /\ settings.sales_collection_current = 7
        /\ settings.sales_collection_next = 3)
          => /\ Returned(sales_data) =>
                  Column(sales_data, "sales_revenue") = <<200000, 240000, 300000, 260000>>
             /\ Returned(collections) =>
                  /\ collections.rows[1].collections = 140000 * Scale
                  /\ collections.rows[2].collections = 228000 * Scale
    /\ LET inflow == legacy_compute_collections(legacy_compute_sales(data.rows),
                                                DEFAULT_POLICIES)
       IN  Column(data, "sales_units") = <<10000, 12000, 15000, 13000>>
              => inflow[1] = 140000 * Scale /\ inflow[2] = 228000 * Scale

\* The scenario's collections have been computed.
C23_Witness ==
    /\ Column(data, "quarter") = <<"Q1", "Q2", "Q3", "Q4">>
    /\ Column(data, "sales_units") = <<10000, 12000, 15000, 13000>>
    /\ settings.sales_collection_current = 7
    /\ settings.sales_collection_next = 3
    /\ Returned(collections)
    /\ collections.rows[2].collections = 228000 * Scale
    /\ collections.rows[4].collections = 272000 * Scale

\* C24: receivables of row i of the balance sheet is the sum of sales_revenue over
\* rows 0..i minus the sum of collections over rows 0..i, collections as
\* compute_collections returns them under the same settings; and when
\* sales_collection_current + sales_collection_next = 1, receivables of row i is
\* sales_revenue of row i times sales_collection_next.
C24_ReceivablesAreUncollected ==
    (Returned(balance_sheet) /\ Returned(collections)) =>
        /\ Len(collections.rows) = Len(balance_sheet.rows)
        /\ \A i \in Rows(balance_sheet) :
            /\ balance_sheet.rows[i].receivables =
                  Sum(SubSeq(Column(sales_data, "sales_revenue"), 1, i)) * Scale
                  - Sum(SubSeq(Column(collections, "collections"), 1, i))
            /\ settings.sales_collection_current + settings.sales_collection_next = Scale
                  => balance_sheet.rows[i].receivables =
                        sales_data.rows[i].sales_revenue * settings.sales_collection_next

\* Three periods under ratios that add up to 1, and receivables that move with
\* the sales of the period.
C24_Witness ==
    /\ Returned(balance_sheet)
    /\ Returned(collections)
    /\ Len(balance_sheet.rows) = MaxPeriods
    /\ settings.sales_collection_current + settings.sales_collection_next = Scale
    /\ balance_sheet.rows[2].receivables # balance_sheet.rows[1].receivables
    /\ balance_sheet.rows[3].receivables =
          sales_data.rows[3].sales_revenue * settings.sales_collection_next
    /\ balance_sheet.rows[3].receivables > 0

\* C25 as stated: in every row of the cash budget ending_cash is the row's
\* beginning_cash plus its collections minus its disbursements, the beginning_cash
\* column holding the beginning_cash setting in row 0 and the previous row's
\* ending_cash in every later row.
C25_BeginningCashRolls ==
    Returned(cash_budget) =>
        \A i \in Rows(cash_budget) :
            LET row == cash_budget.rows[i] IN
            /\ row.beginning_cash * Scale * Scale =
                  (IF i = 1 THEN settings.beginning_cash * Scale * Scale
                   ELSE cash_budget.rows[i-1].ending_cash)
            /\ row.ending_cash =
                  row.beginning_cash * Scale * Scale + row.collections * Scale * Scale
                  - row.disbursements

\* The purchases schedule of BudgetCalculator.compute_purchases conserves units:
\* the purchases_units add up to the sales_units plus the desired_ending_inventory
\* of the last row, and every row carries out its desired_ending_inventory.
UnitsConserved ==
    Returned(purchases) =>
        LET n == Len(purchases.rows) IN
        /\ Sum(Column(purchases, "purchases_units")) =
              Sum(Column(purchases, "sales_units")) * Scale
              + purchases.rows[n].desired_ending_inventory
        /\ \A i \in Rows(purchases) :
              LET row == purchases.rows[i] IN
              row.beginning_inventory + row.purchases_units - row.sales_units * Scale
                  = row.desired_ending_inventory

\* C26 as stated: over the purchases schedule of a table with rows, the
\* purchases_units add up to the sales_units plus the desired_ending_inventory of
\* the last row, and in every row beginning_inventory + purchases_units -
\* sales_units is the row's desired_ending_inventory; the same holds for the three
\* lists compute_purchases of master_budget_gui.py returns for the table.
C26_UnitsConserved ==
    /\ UnitsConserved
    /\ Returned(data) =>
          LET n == Len(data.rows)
              p == legacy_compute_purchases(data.rows, DEFAULT_POLICIES)
          IN  /\ Sum(p.purchases_units) =
                    Sum(Column(data, "sales_units")) * Scale + p.desired_ending_inv[n]
              /\ \A i \in Rows(data) :
                    p.beginning_inventory[i] + p.purchases_units[i]
                        - data.rows[i].sales_units * Scale
                        = p.desired_ending_inv[i]

\* C27: through any sequence of set_setting, update_settings, load_from_file and
\* reset_to_defaults the keys of the settings are exactly the eight default keys;
\* set_setting with a key that is no setting returns False and changes no setting;
\* and an assignment to the mapping get_all_settings returned changes no setting.
C27_KeysAreTheDefaults ==
    /\ [](/\ DOMAIN mgr.settings = DOMAIN default_settings
          /\ Cardinality(DOMAIN mgr.settings) = 8)
    /\ [][ /\ (mgr'.op.name = "set_setting" /\ mgr'.op # mgr.op
                 /\ mgr'.op.args[1] \notin DOMAIN default_settings)
              => (~mgr'.ret.ok /\ mgr'.settings = mgr.settings)
           /\ CallerWritesCopy => mgr'.settings = mgr.settings ]_vars

\* load_from_file has read a file holding a key that is no setting and returned
\* True, the setting that follows it in the file applied.
C27_Witness ==
    /\ mgr.op.name = "load_from_file"
    /\ mgr.ret.ok
    /\ mgr.file.state = "document"
    /\ \E i \in DOMAIN mgr.file.content :
          mgr.file.content[i][1] \notin DOMAIN default_settings
    /\ mgr.settings["sales_collection_current"] = Float(7)
    /\ DOMAIN mgr.settings = DOMAIN default_settings

\* C28 as stated: an update_settings or a load_from_file that returns False has
\* changed no setting.
C28_AllOrNothing ==
    [][ ((UpdateSettings \/ LoadFromFile) /\ ~mgr'.ret.ok)
            => mgr'.settings = mgr.settings ]_vars

\* C29: in MainWindow, through any sequence of UI actions, the settings the
\* calculator holds equal the settings of the settings manager and are a mapping of
\* their own; a save_settings that succeeds leaves the manager with the numbers of
\* the entries and the calculator on a copy of them, and one that fails on an
\* entry that is no number changes neither.
C29_CalculatorFollowsSettings ==
    /\ [](win.calc.val = win.sm /\ ~win.calc.same)
    /\ [][ WinSaveSettings =>
             IF win'.ok
             THEN /\ \A key \in DOMAIN win'.sm :
                        win'.sm[key] = PyFloat(win.setting_vars[key]).val
                  /\ win'.calc = get_all_settings(win'.sm)
             ELSE /\ \E key \in DOMAIN win.setting_vars :
                        PyFloat(win.setting_vars[key]).raised = "ValueError"
                  /\ win'.sm = win.sm
                  /\ win'.calc = win.calc ]_vars

\* Settings saved from the entries, other than the defaults, with a table loaded.
C29_Witness ==
    /\ win.op = "save_settings"
    /\ win.ok
    /\ win.sm["sales_collection_current"] = Float(7)
    /\ win.sm["beginning_cash"] = Float(1000000)
    /\ win.sm # default_settings
    /\ win.calc.val = win.sm
    /\ ~win.calc.same
    /\ Returned(win.data)

\* The reports come in their order and no file is written before the three
\* reports exist.
ReportsInOrder ==
    /\ (legacy'.income_statement_df # legacy.income_statement_df
          /\ ~legacy'.income_statement_df.none)
       => ~legacy.cash_budget_df.none
    /\ (legacy'.balance_sheet_df # legacy.balance_sheet_df
          /\ ~legacy'.balance_sheet_df.none)
       => ~legacy.cash_budget_df.none
    /\ (legacy'.outputs # legacy.outputs \/ legacy'.exc \in {"OSError", "ImportError"})
       => (~legacy.cash_budget_df.none /\ ~legacy.income_statement_df.none
             /\ ~legacy.balance_sheet_df.none)

\* C30 as stated: in the event loop of build_gui an income statement or a balance
\* sheet is generated only after a cash budget has been, export_reports writes its
\* files only when the three reports have been generated, and a language-menu
\* event leaves a window built in the language selected.
C30_EventLoop ==
    [][ /\ ReportsInOrder
        /\ GuiLanguageEvent("English") => legacy'.lang = "en"
        /\ GuiLanguageEvent("Arabic") => legacy'.lang = "ar" ]_vars

\* The first two parts of C30 alone.
C30_ReportsInOrder == [][ReportsInOrder]_vars

=============================================================================
